---- MODULE Spec2Model ----
(***************************************************************************)
(* A model of circuitcraft's CircuitBoard (src/src/circuitcraft):         *)
(* the perches, the backward and the forward networkx DiGraph and their   *)
(* movers, the seven lifecycle flags, execute_mover, solve_backward,      *)
(* solve_forward, solve, and the Eulerian functions of eulerian.py.       *)
(* Every action is one call of a public method; a call that raises        *)
(* records the exception in `last` and changes what the code had changed  *)
(* before the raise.                                                      *)
(***************************************************************************)
EXTENDS Integers, Sequences, FiniteSets, TLC

(***************************************************************************)
(* Bounds of the exploration.                                             *)
(***************************************************************************)
\* seeds written by the client are 1..MaxVal
MaxVal == 2
\* dependencies held by the Nodes of the legacy Graph together
MaxDependencies == 3
\* movers held by the two graphs together
MaxMovers == 3
\* the same, for the boards the Eulerian queries are made on
MaxRingMovers == 4
\* calls of solve_backward / solve_forward / solve in one behaviour
MaxSolves == 2
\* the same, for the boards execute_mover is called on and the boards
\* additions fail on
MaxExecMovers == 2

(***************************************************************************)
(* Python values.  None is the absent placeholder; the other values are   *)
(* naturals.                                                              *)
(***************************************************************************)
None == -1
\* float("nan"), the one value that differs from itself
NaN == -2

\* the cap of the convergence loops (`if iteration > 100`)
MaxIterations == 100

Names == {"A", "B", "C"}
Seeds == 1..MaxVal

\* dict literals: a dict is a function from its keys
EmptyDict == [k \in {} |-> None]
NoPerches == [p \in {} |-> EmptyDict]

(***************************************************************************)
(* Sequence helpers.                                                      *)
(***************************************************************************)
Range(s) == {s[i] : i \in DOMAIN s}

RECURSIVE SeqFilter(_, _)
\* the elements of s that are in set S, in the order of s
\* the element of a one-element set
Only(S) == CHOOSE x \in S : TRUE

SeqFilter(s, S) ==
  IF s = <<>> THEN <<>>
  ELSE IF Head(s) \in S THEN <<Head(s)>> \o SeqFilter(Tail(s), S)
       ELSE SeqFilter(Tail(s), S)

(***************************************************************************)
(* Perch (perch.py).                                                      *)
(***************************************************************************)
\* Perch.__init__: data_types or the default; "up" and "down" always exist
PerchInit(data_types) ==
  [k \in (DOMAIN data_types) \cup {"up", "down"} |->
     IF k \in DOMAIN data_types THEN data_types[k] ELSE None]

\* the properties up/comp and down/sim: self.data.get("up"), self.data.get("down")
comp(d) == d["up"]

\* a sim property that returns the upstream value
sim_upstream(d) == d["up"]

sim(d) == d["down"]

\* Perch.get_data raises KeyError for a key outside the schema
HasKey(d, k) == k \in DOMAIN d

\* Perch.set_data on a key of the schema
set_data(d, k, v) == [d EXCEPT ![k] = v]

(***************************************************************************)
(* networkx.DiGraph as used by the board: the node order is the order of  *)
(* add_node, succ[n] and pred[n] are the adjacency dicts in insertion     *)
(* order, mover[<<u, v>>] is the edge attribute "mover".                  *)
(***************************************************************************)
EmptyGraph == [succ |-> [n \in {} |-> <<>>],
               pred |-> [n \in {} |-> <<>>],
               mover |-> [e \in {} |-> EmptyDict]]

add_node(g, n) ==
  IF n \in DOMAIN g.succ THEN g
  ELSE [g EXCEPT !.succ = (n :> <<>>) @@ g.succ,
                 !.pred = (n :> <<>>) @@ g.pred]

has_edge(g, u, v) == <<u, v>> \in DOMAIN g.mover

\* an add_edge that puts an edge that is already there into the adjacency
\* dicts a second time (a MultiDiGraph)
add_edge_parallel(g, u, v, m) ==
  [succ |-> [g.succ EXCEPT ![u] = Append(@, v)],
   pred |-> [g.pred EXCEPT ![v] = Append(@, u)],
   mover |-> (<<u, v>> :> m) @@ g.mover]

\* add_edge(u, v, mover=m) between existing nodes: a new edge goes to the
\* end of both adjacency dicts, an existing edge keeps its place and gets
\* the new attribute
add_edge(g, u, v, m) ==
  IF has_edge(g, u, v)
  THEN [g EXCEPT !.mover = (<<u, v>> :> m) @@ g.mover]
  ELSE [succ |-> [g.succ EXCEPT ![u] = Append(@, v)],
        pred |-> [g.pred EXCEPT ![v] = Append(@, u)],
        mover |-> (<<u, v>> :> m) @@ g.mover]

EdgeSet(g) == DOMAIN g.mover
out_degree(g, n) == Len(g.succ[n])
in_degree(g, n) == Len(g.pred[n])

RECURSIVE EdgesFrom(_, _)
\* G.edges(): for each node in node order, its successors in adjacency order
EdgesFrom(g, order) ==
  IF order = <<>> THEN <<>>
  ELSE [i \in 1..Len(g.succ[Head(order)]) |-> <<Head(order), g.succ[Head(order)][i]>>]
       \o EdgesFrom(g, Tail(order))

(***************************************************************************)
(* Mover (mover.py).  map_data {} is the empty map; comp None is no       *)
(* transform.  Maps and transforms are named by strings.                  *)
(***************************************************************************)
NoMap == "{}"
NoComp == "None"
NoKey == "None"

Mover(edge_type, map_data, parameters, hyper, source_keys, target_key) ==
  [edge_type |-> edge_type, map_data |-> map_data, parameters |-> parameters,
   numerical_hyperparameters |-> hyper, comp |-> NoComp,
   source_keys |-> source_keys, target_key |-> target_key]

has_map(m) == m.map_data # NoMap
has_comp(m) == m.comp # NoComp

(***************************************************************************)
(* State of a CircuitBoard, and `last`, the record of the latest call.    *)
(***************************************************************************)
VARIABLES
  perch_order,            \* keys of self.perches in insertion order
  perches,                \* name -> data dict of the perch
  backward_graph,
  forward_graph,
  has_empty_perches,
  has_model,
  movers_backward_exist,
  is_portable,
  is_solvable,
  is_solved,
  is_simulated,
  solves,                 \* number of solve calls made (bounded by MaxSolves)
  last,                   \* the latest call: name, outcome, values before it
  perch,                  \* a Perch held outside any board: data, _initialized_keys
  dag                     \* a legacy Graph: nodes, their parents and children,
                          \* the DiGraph, the cached sorted_nodes

flags == <<has_empty_perches, has_model, movers_backward_exist, is_portable,
           is_solvable, is_solved, is_simulated>>
structure == <<perch_order, backward_graph, forward_graph>>
vars == <<perch_order, perches, backward_graph, forward_graph,
          has_empty_perches, has_model, movers_backward_exist, is_portable,
          is_solvable, is_solved, is_simulated, solves, last, perch, dag>>

\* op: the method; outcome: "ok", the value returned or the exception raised;
\* pre: the perch values before a solver call; res: the list returned;
\* capped: a convergence loop of the call stopped at the iteration cap;
\* calls: the transform invocations of a solver call, each the source, the
\* target and the input the transform was given;
\* again: the call is a solve() that follows a solve() that returned True
SolverCall(op, outcome, pre, capped, again) ==
  [op |-> op, outcome |-> outcome, pre |-> pre, res |-> <<>>,
   capped |-> capped, again |-> again, calls |-> {}]

\* the record of a solver call that made the invocations calls
Invoked(call, calls) == [call EXCEPT !.calls = calls]

Call(op, outcome, pre, res) ==
  [op |-> op, outcome |-> outcome, pre |-> pre, res |-> res,
   capped |-> FALSE, again |-> FALSE, calls |-> {}]

\* no Perch held outside the board
NoPerch == [data |-> EmptyDict, _initialized_keys |-> {}]

\* a legacy Graph() without nodes
Graph == [nodes |-> <<>>,
          parents |-> [n \in {} |-> <<>>],
          children |-> [n \in {} |-> <<>>],
          graph |-> EmptyGraph,
          sorted_nodes |-> <<>>]

\* CircuitBoard.__init__
Init ==
  /\ perch = NoPerch
  /\ dag = Graph
  /\ perch_order = <<>>
  /\ perches = NoPerches
  /\ backward_graph = EmptyGraph
  /\ forward_graph = EmptyGraph
  /\ has_empty_perches = TRUE
  /\ has_model = FALSE
  /\ movers_backward_exist = FALSE
  /\ is_portable = FALSE
  /\ is_solvable = FALSE
  /\ is_solved = FALSE
  /\ is_simulated = FALSE
  /\ solves = 0
  /\ last = Call("__init__", "ok", NoPerches, <<>>)

\* what _get_graph gives for an edge type it does not know: it raises
\* ValueError("Unrecognized edge_type: ...")
NoGraph == [err |-> "ValueError"]

\* CircuitBoard._get_graph(edge_type)
_get_graph(edge_type) ==
  IF edge_type = "forward" THEN forward_graph
  ELSE IF edge_type = "backward" THEN backward_graph
  ELSE NoGraph

\* add_perch that stores the perch under a name that is taken
add_perch_replacing(name, data_types) ==
  LET d == PerchInit(data_types) IN
  /\ perches' = (name :> d) @@ perches
  /\ perch_order' = IF name \in DOMAIN perches THEN perch_order
                    ELSE Append(perch_order, name)
  /\ backward_graph' = add_node(backward_graph, name)
  /\ forward_graph' = add_node(forward_graph, name)
  /\ has_empty_perches' =
       IF comp(d) # None \/ sim(d) # None THEN FALSE ELSE has_empty_perches
  /\ last' = Call("add_perch", "ok", NoPerches, <<>>)
  /\ UNCHANGED <<has_model, movers_backward_exist, is_portable, is_solvable,
                 is_solved, is_simulated, solves>>

\* CircuitBoard.add_perch(Perch(name, data_types))
add_perch(name, data_types) ==
  IF name \in DOMAIN perches
  THEN /\ last' = Call("add_perch", "ValueError", NoPerches, <<>>)
       /\ UNCHANGED <<structure, perches, flags, solves>>
  ELSE LET d == PerchInit(data_types) IN
       /\ perches' = (name :> d) @@ perches
       /\ perch_order' = Append(perch_order, name)
       /\ backward_graph' = add_node(backward_graph, name)
       /\ forward_graph' = add_node(forward_graph, name)
       /\ has_empty_perches' =
            IF comp(d) # None \/ sim(d) # None THEN FALSE ELSE has_empty_perches
       /\ last' = Call("add_perch", "ok", NoPerches, <<>>)
       /\ UNCHANGED <<has_model, movers_backward_exist, is_portable, is_solvable,
                      is_solved, is_simulated, solves>>

(***************************************************************************)
(* Optional arguments: Nothing is "not given" (None), Some(x) is x.       *)
(***************************************************************************)
Nothing == <<>>
Some(x) == <<x>>

\* the keys add_mover gives a mover: source_key (deprecated) wins over the
\* default, the defaults are "comp" (backward) and "sim" (forward)
SourceKeysOf(edge_type, source_key, source_keys) ==
  IF source_key # NoKey THEN <<source_key>>
  ELSE IF source_keys # Nothing THEN source_keys[1]
  ELSE IF edge_type = "backward" THEN <<"comp">> ELSE <<"sim">>

TargetKeyOf(edge_type, target_key) ==
  IF target_key # NoKey THEN target_key
  ELSE IF edge_type = "backward" THEN "comp" ELSE "sim"

NumMovers == Cardinality(EdgeSet(backward_graph)) + Cardinality(EdgeSet(forward_graph))

\* add_mover that sets movers_backward_exist for a mover of either edge type
add_mover_flagging(source_name, target_name, map_data, parameters, hyper, source_key, source_keys, target_key, edge_type) ==
  IF \/ source_name \notin DOMAIN perches
     \/ target_name \notin DOMAIN perches
     \/ edge_type \notin {"forward", "backward"}
     \/ (source_key # NoKey /\ source_keys # Nothing)
  THEN /\ last' = Call("add_mover", "ValueError", NoPerches, <<>>)
       /\ UNCHANGED <<structure, perches, flags, solves>>
  ELSE LET mover == Mover(edge_type, map_data, parameters, hyper,
                          SourceKeysOf(edge_type, source_key, source_keys),
                          TargetKeyOf(edge_type, target_key)) IN
       /\ IF edge_type = "forward"
          THEN /\ forward_graph' = add_edge(forward_graph, source_name, target_name, mover)
               /\ UNCHANGED backward_graph
          ELSE /\ backward_graph' = add_edge(backward_graph, source_name, target_name, mover)
               /\ UNCHANGED forward_graph
       /\ movers_backward_exist' = TRUE
       /\ has_model' = FALSE
       /\ last' = Call("add_mover", "ok", NoPerches, <<>>)
       /\ UNCHANGED <<perch_order, perches, has_empty_perches, is_portable,
                      is_solvable, is_solved, is_simulated, solves>>

\* CircuitBoard.add_mover
add_mover(source_name, target_name, map_data, parameters, hyper, source_key, source_keys, target_key, edge_type) ==
  IF \/ source_name \notin DOMAIN perches
     \/ target_name \notin DOMAIN perches
     \/ edge_type \notin {"forward", "backward"}
     \/ (source_key # NoKey /\ source_keys # Nothing)
  THEN /\ last' = Call("add_mover", "ValueError", NoPerches, <<>>)
       /\ UNCHANGED <<structure, perches, flags, solves>>
  ELSE LET mover == Mover(edge_type, map_data, parameters, hyper,
                          SourceKeysOf(edge_type, source_key, source_keys),
                          TargetKeyOf(edge_type, target_key)) IN
       /\ IF edge_type = "forward"
          THEN /\ forward_graph' = add_edge(forward_graph, source_name, target_name, mover)
               /\ UNCHANGED backward_graph
          ELSE /\ backward_graph' = add_edge(backward_graph, source_name, target_name, mover)
               /\ UNCHANGED forward_graph
       /\ movers_backward_exist' =
            IF edge_type = "backward" THEN TRUE ELSE movers_backward_exist
       /\ has_model' = FALSE
       /\ last' = Call("add_mover", "ok", NoPerches, <<>>)
       /\ UNCHANGED <<perch_order, perches, has_empty_perches, is_portable,
                      is_solvable, is_solved, is_simulated, solves>>

\* the board with the mover of edge (u, v) of graph edge_type replaced by m
WithMover(edge_type, u, v, m) ==
  IF edge_type = "forward"
  THEN /\ forward_graph' = [forward_graph EXCEPT !.mover[<<u, v>>] = m]
       /\ UNCHANGED backward_graph
  ELSE /\ backward_graph' = [backward_graph EXCEPT !.mover[<<u, v>>] = m]
       /\ UNCHANGED forward_graph

\* CircuitBoard.set_mover_map -> Mover.set_map
set_mover_map(source_name, target_name, edge_type, map_data) ==
  IF \/ _get_graph(edge_type) = NoGraph
     \/ ~has_edge(_get_graph(edge_type), source_name, target_name)
  THEN /\ last' = Call("set_mover_map", "ValueError", NoPerches, <<>>)
       /\ UNCHANGED <<structure, perches, flags, solves>>
  ELSE /\ WithMover(edge_type, source_name, target_name,
                    [_get_graph(edge_type).mover[<<source_name, target_name>>]
                       EXCEPT !.map_data = map_data])
       /\ last' = Call("set_mover_map", "ok", NoPerches, <<>>)
       /\ UNCHANGED <<perch_order, perches, flags, solves>>

\* CircuitBoard.set_mover_parameters -> Mover.set_parameters
set_mover_parameters(source_name, target_name, edge_type, parameters) ==
  IF \/ _get_graph(edge_type) = NoGraph
     \/ ~has_edge(_get_graph(edge_type), source_name, target_name)
  THEN /\ last' = Call("set_mover_parameters", "ValueError", NoPerches, <<>>)
       /\ UNCHANGED <<structure, perches, flags, solves>>
  ELSE /\ WithMover(edge_type, source_name, target_name,
                    [_get_graph(edge_type).mover[<<source_name, target_name>>]
                       EXCEPT !.parameters = parameters])
       /\ last' = Call("set_mover_parameters", "ok", NoPerches, <<>>)
       /\ UNCHANGED <<perch_order, perches, flags, solves>>

\* CircuitBoard.set_mover_numerical_hyperparameters ->
\* Mover.set_numerical_hyperparameters
set_mover_numerical_hyperparameters(source_name, target_name, edge_type, hyperparams) ==
  IF \/ _get_graph(edge_type) = NoGraph
     \/ ~has_edge(_get_graph(edge_type), source_name, target_name)
  THEN /\ last' = Call("set_mover_numerical_hyperparameters", "ValueError", NoPerches, <<>>)
       /\ UNCHANGED <<structure, perches, flags, solves>>
  ELSE /\ WithMover(edge_type, source_name, target_name,
                    [_get_graph(edge_type).mover[<<source_name, target_name>>]
                       EXCEPT !.numerical_hyperparameters = hyperparams])
       /\ last' = Call("set_mover_numerical_hyperparameters", "ok", NoPerches, <<>>)
       /\ UNCHANGED <<perch_order, perches, flags, solves>>

\* CircuitBoard.set_mover_comp -> Mover.set_comp
set_mover_comp(source_name, target_name, edge_type, comp_func) ==
  IF \/ _get_graph(edge_type) = NoGraph
     \/ ~has_edge(_get_graph(edge_type), source_name, target_name)
  THEN /\ last' = Call("set_mover_comp", "ValueError", NoPerches, <<>>)
       /\ UNCHANGED <<structure, perches, flags, solves>>
  ELSE /\ WithMover(edge_type, source_name, target_name,
                    [_get_graph(edge_type).mover[<<source_name, target_name>>]
                       EXCEPT !.comp = comp_func])
       /\ last' = Call("set_mover_comp", "ok", NoPerches, <<>>)
       /\ UNCHANGED <<perch_order, perches, flags, solves>>

\* _get_initial_perches: the nodes without incoming edge
_get_initial_perches(g) == {n \in DOMAIN g.pred : in_degree(g, n) = 0}
\* _get_terminal_perches: the nodes without outgoing edge, in node order
_get_terminal_perches(g, order) ==
  SeqFilter(order, {n \in DOMAIN g.succ : out_degree(g, n) = 0})

\* _check_solvability on model flag hm, perch values ps and the graphs:
\* TRUE when the code reaches `self.is_solvable = True`
_check_solvability(hm, ps) ==
  /\ hm
  /\ movers_backward_exist => \E p \in DOMAIN ps : comp(ps[p]) # None
  /\ EdgeSet(forward_graph) # {} =>
       \E p \in _get_initial_perches(forward_graph) : sim(ps[p]) # None

\* CircuitBoard.finalize_model
finalize_model ==
  /\ has_model' = TRUE
  /\ is_solvable' = IF _check_solvability(TRUE, perches) THEN TRUE ELSE is_solvable
  /\ last' = Call("finalize_model", "ok", NoPerches, <<>>)
  /\ UNCHANGED <<structure, perches, has_empty_perches, movers_backward_exist,
                 is_portable, is_solved, is_simulated, solves>>

RECURSIVE SetAll(_, _, _)
\* `for key, value in data.items(): perch.set_data(key, value)` over the keys
\* in order ks; stops at the first key outside the schema
SetAll(d, bundle, ks) ==
  IF ks = <<>> THEN [err |-> "none", data |-> d]
  ELSE IF ~HasKey(d, Head(ks)) THEN [err |-> "KeyError", data |-> d]
  ELSE SetAll(set_data(d, Head(ks), bundle[Head(ks)]), bundle, Tail(ks))

\* CircuitBoard.set_perch_data(perch_name, data), data a dict with keys in
\* the order ks
set_perch_data(perch_name, bundle, ks) ==
  IF perch_name \notin DOMAIN perches
  THEN /\ last' = Call("set_perch_data", "ValueError", NoPerches, <<>>)
       /\ UNCHANGED <<structure, perches, flags, solves>>
  ELSE LET r == SetAll(perches[perch_name], bundle, ks)
           ps == [perches EXCEPT ![perch_name] = r.data] IN
       /\ perches' = ps
       /\ IF r.err = "none"
          THEN /\ has_empty_perches' = IF ks # <<>> THEN FALSE ELSE has_empty_perches
               /\ is_solvable' = IF _check_solvability(has_model, ps) THEN TRUE ELSE is_solvable
               /\ last' = Call("set_perch_data", "ok", NoPerches, <<>>)
          ELSE /\ last' = Call("set_perch_data", r.err, NoPerches, <<>>)
               /\ UNCHANGED <<has_empty_perches, is_solvable>>
       /\ UNCHANGED <<structure, has_model, movers_backward_exist, is_portable,
                      is_solved, is_simulated, solves>>

\* create_comp_from_map for every mover with a map, with a comp or not
CreateCompsOverwriting(g, factory) ==
  [g EXCEPT !.mover = [e \in DOMAIN g.mover |->
     IF has_map(g.mover[e])
     THEN [g.mover[e] EXCEPT !.comp = factory[g.mover[e].map_data]]
     ELSE g.mover[e]]]

\* create_comp_from_map that keeps the dict it handed to the factory as the
\* parameters of the mover
CreateCompsKeepingInput(g, factory) ==
  [g EXCEPT !.mover = [e \in DOMAIN g.mover |->
     IF has_map(g.mover[e]) /\ ~has_comp(g.mover[e])
     THEN [g.mover[e] EXCEPT !.comp = factory[g.mover[e].map_data],
                             !.parameters = [map |-> g.mover[e].map_data]]
     ELSE g.mover[e]]]

\* Mover.create_comp_from_map for the movers with a map and no comp; the
\* factory is a function from map names to transform names
CreateComps(g, factory) ==
  [g EXCEPT !.mover = [e \in DOMAIN g.mover |->
     IF has_map(g.mover[e]) /\ ~has_comp(g.mover[e])
     THEN [g.mover[e] EXCEPT !.comp = factory[g.mover[e].map_data]]
     ELSE g.mover[e]]]

\* _check_portability: the value is_portable is given
_check_portability(bg, fg) ==
  \A g \in {bg, fg} : \A e \in DOMAIN g.mover :
     ~(has_map(g.mover[e]) /\ ~has_comp(g.mover[e]))

\* CircuitBoard.create_comps_from_maps(comp_factory)
create_comps_from_maps(factory) ==
  LET bg == CreateComps(backward_graph, factory)
      fg == CreateComps(forward_graph, factory) IN
  /\ backward_graph' = bg
  /\ forward_graph' = fg
  /\ is_portable' = _check_portability(bg, fg)
  /\ last' = Call("create_comps_from_maps", "ok", NoPerches, <<>>)
  /\ UNCHANGED <<perch_order, perches, has_empty_perches, has_model,
                 movers_backward_exist, is_solvable, is_solved, is_simulated, solves>>

(***************************************************************************)
(* Transforms.  A transform gets a bare value (one source key) or a dict  *)
(* (any other number of source keys) and returns a bare value, a dict, or *)
(* raises.  The transforms the client attaches are                        *)
(*   identity = lambda x: x,  halve = lambda x: x // 2,                   *)
(*   add_one = lambda x: x + 1.                                           *)
(***************************************************************************)
Bare(v) == [kind |-> "bare", val |-> v, dict |-> EmptyDict]
Bundle(d) == [kind |-> "dict", val |-> None, dict |-> d]
Raised == [kind |-> "raise", val |-> None, dict |-> EmptyDict]

IsNumber(x) == x.kind = "bare" /\ x.val # None

identity(x) == x
halve(x) == IF ~IsNumber(x) THEN Raised
            ELSE IF x.val = NaN THEN Bare(NaN) ELSE Bare(x.val \div 2)
add_one(x) == IF ~IsNumber(x) THEN Raised
              ELSE IF x.val = NaN THEN Bare(NaN) ELSE Bare(x.val + 1)

\* Mover.execute: self.comp(data)
execute(comp_func, x) ==
  CASE comp_func = "identity" -> identity(x)
    [] comp_func = "halve" -> halve(x)
    [] comp_func = "add_one" -> add_one(x)

\* `if mover.target_key:`
Truthy(key) == key # NoKey /\ key # ""

\* execute_mover with `target_perch.data.update(result)` for a dict: every
\* key of the result is written, in the schema of the target or not
execute_mover_update(ps, g, source_name, target_name) ==
  IF ~has_edge(g, source_name, target_name)
  THEN [err |-> "ValueError", data |-> ps, calls |-> {}]
  ELSE
  LET mover == g.mover[<<source_name, target_name>>]
      src == ps[source_name]
      tgt == ps[target_name]
      keys == mover.source_keys
  IN
  IF ~has_comp(mover) THEN [err |-> "ValueError", data |-> ps, calls |-> {}]
  ELSE IF \E i \in DOMAIN keys : ~HasKey(src, keys[i])
  THEN [err |-> "KeyError", data |-> ps, calls |-> {}]
  ELSE
  LET input_data == IF Len(keys) = 1 THEN Bare(src[keys[1]])
                    ELSE Bundle([k \in Range(keys) |-> src[k]])
      result == execute(mover.comp, input_data)
      calls == {<<source_name, target_name, input_data>>}
  IN
  CASE result.kind = "raise" -> [err |-> "TypeError", data |-> ps, calls |-> calls]
    [] result.kind = "bare" /\ result.val = None ->
         [err |-> "none", data |-> ps, calls |-> calls]
    [] result.kind = "dict" ->
         [err |-> "none",
          data |-> [ps EXCEPT ![target_name] =
                      [k \in DOMAIN tgt \cup DOMAIN result.dict |->
                         IF k \in DOMAIN result.dict THEN result.dict[k] ELSE tgt[k]]],
          calls |-> calls]
    [] OTHER ->
         IF ~Truthy(mover.target_key) THEN [err |-> "none", data |-> ps, calls |-> calls]
         ELSE IF ~HasKey(tgt, mover.target_key)
         THEN [err |-> "KeyError", data |-> ps, calls |-> calls]
         ELSE [err |-> "none",
               data |-> [ps EXCEPT ![target_name] =
                           set_data(tgt, mover.target_key, result.val)],
               calls |-> calls]

\* CircuitBoard.execute_mover on perch values ps and graph g: the exception
\* raised ("none" when it returns), the perch values afterwards, and the
\* invocation of the transform if it got that far
execute_mover(ps, g, source_name, target_name) ==
  IF ~has_edge(g, source_name, target_name)
  THEN [err |-> "ValueError", data |-> ps, calls |-> {}]
  ELSE
  LET mover == g.mover[<<source_name, target_name>>]
      src == ps[source_name]
      tgt == ps[target_name]
      keys == mover.source_keys
  IN
  IF ~has_comp(mover) THEN [err |-> "ValueError", data |-> ps, calls |-> {}]
  ELSE IF \E i \in DOMAIN keys : ~HasKey(src, keys[i])
  THEN [err |-> "KeyError", data |-> ps, calls |-> {}]
  ELSE
  LET input_data == IF Len(keys) = 1 THEN Bare(src[keys[1]])
                    ELSE Bundle([k \in Range(keys) |-> src[k]])
      result == execute(mover.comp, input_data)
      calls == {<<source_name, target_name, input_data>>}
  IN
  CASE result.kind = "raise" -> [err |-> "TypeError", data |-> ps, calls |-> calls]
    [] result.kind = "bare" /\ result.val = None ->
         [err |-> "none", data |-> ps, calls |-> calls]
    [] result.kind = "dict" ->
         [err |-> "none",
          data |-> [ps EXCEPT ![target_name] =
                      [k \in DOMAIN tgt |->
                         IF k \in DOMAIN result.dict THEN result.dict[k] ELSE tgt[k]]],
          calls |-> calls]
    [] OTHER ->
         IF ~Truthy(mover.target_key) THEN [err |-> "none", data |-> ps, calls |-> calls]
         ELSE IF ~HasKey(tgt, mover.target_key)
         THEN [err |-> "KeyError", data |-> ps, calls |-> calls]
         ELSE [err |-> "none",
               data |-> [ps EXCEPT ![target_name] =
                           set_data(tgt, mover.target_key, result.val)],
               calls |-> calls]

\* previous != current
NotEqual(previous, current) == previous = NaN \/ current = NaN \/ previous # current

\* the comparison of the target value before and after a mover ran
value_changed(previous, current) ==
  IF previous = None /\ current # None THEN TRUE
  ELSE IF current = None /\ previous # None THEN TRUE
  ELSE IF previous # None THEN NotEqual(previous, current)
  ELSE FALSE

(***************************************************************************)
(* networkx.topological_sort (networkx >= 2.6, setup.py): Kahn's          *)
(* algorithm by generations.                                              *)
(***************************************************************************)
RECURSIVE Children(_, _)
\* the children visited while a generation is processed, in visiting order
Children(g, gen) ==
  IF gen = <<>> THEN <<>> ELSE g.succ[Head(gen)] \o Children(g, Tail(gen))

RECURSIVE Decrement(_, _, _)
\* indegree_map[child] -= 1 for each visited child; a child that reaches 0
\* joins the next generation
Decrement(kids, indeg, next) ==
  IF kids = <<>> THEN [indeg |-> indeg, next |-> next]
  ELSE LET c == Head(kids)
           d == indeg[c] - 1 IN
       Decrement(Tail(kids), [indeg EXCEPT ![c] = d],
                 IF d = 0 THEN Append(next, c) ELSE next)

RECURSIVE Generations(_, _, _, _)
Generations(g, gen, indeg, sorted) ==
  IF gen = <<>>
  THEN [order |-> sorted, cyclic |-> \E n \in DOMAIN indeg : indeg[n] > 0]
  ELSE LET r == Decrement(Children(g, gen), indeg, <<>>) IN
       Generations(g, r.next, r.indeg, sorted \o gen)

\* a sort that takes the nodes as they come and never finds a cycle
topological_sort_unchecked(g, nodes) == [order |-> nodes, cyclic |-> FALSE]

\* order: the sorted nodes; cyclic: NetworkXUnfeasible is raised
topological_sort(g, nodes) ==
  Generations(g, SeqFilter(nodes, {n \in DOMAIN g.pred : in_degree(g, n) = 0}),
              [n \in DOMAIN g.pred |-> in_degree(g, n)], <<>>)

(***************************************************************************)
(* The RuntimeErrors of the solver, told apart by their messages.         *)
(***************************************************************************)
NoBackwardMovers == "RuntimeError: Cannot solve backwards: No backward movers exist"
NoCompValue == "RuntimeError: Cannot solve backwards: No perch has a comp value"
BackwardCycles == "RuntimeError: Backward graph contains cycles; cannot perform topological sort"
NoCompValueForward == "RuntimeError: Cannot simulate forward pass: No perch has a comp value."
NoCompAndSim == "RuntimeError: Cannot simulate forward pass: No perch has both comp and sim values."
NotFinalized == "RuntimeError: Cannot solve: Circuit model is not finalized"
NotSolvable == "RuntimeError: Cannot solve: Circuit is not solvable (missing terminal values)"

(***************************************************************************)
(* solve_backward.                                                        *)
(***************************************************************************)
\* the debug listing before the loop reads source_keys[0] of the source and
\* target_key of the target of every backward mover with get_data
BackwardKeyError(ps, g) ==
  \E e \in DOMAIN g.mover :
    LET mover == g.mover[e] IN
    \/ mover.source_keys # <<>> /\ ~HasKey(ps[e[1]], mover.source_keys[1])
    \/ Truthy(mover.target_key) /\ ~HasKey(ps[e[2]], mover.target_key)

\* the result res of the rest of a pass, with the invocations made before it
WithCalls(res, calls) == [res EXCEPT !.calls = @ \cup calls]

RECURSIVE BackwardPass(_, _, _, _)
\* a pass that an exception of execute_mover ends (`except: break`)
BackwardPassStopping(ps, g, edges, made_changes) ==
  IF edges = <<>> THEN [data |-> ps, made_changes |-> made_changes, calls |-> {}]
  ELSE
  LET source == Head(edges)[1]
      target == Head(edges)[2]
      mover == g.mover[Head(edges)]
      source_has_data ==
        IF mover.source_keys # <<>>
        THEN ps[source][mover.source_keys[1]] # None ELSE TRUE
      r == execute_mover(ps, g, source, target)
      previous_target_value ==
        IF Truthy(mover.target_key) THEN ps[target][mover.target_key] ELSE None
      current_target_value ==
        IF Truthy(mover.target_key) THEN r.data[target][mover.target_key] ELSE None
  IN
  IF ~source_has_data \/ ~has_comp(mover)
  THEN BackwardPass(ps, g, Tail(edges), made_changes)
  ELSE IF r.err # "none"
  THEN [data |-> r.data, made_changes |-> made_changes, calls |-> r.calls]
  ELSE WithCalls(BackwardPass(r.data, g, Tail(edges),
                              made_changes \/ value_changed(previous_target_value,
                                                            current_target_value)),
                 r.calls)

\* one pass of `for source, target, mover_data in self.backward_graph.edges`
BackwardPass(ps, g, edges, made_changes) ==
  IF edges = <<>> THEN [data |-> ps, made_changes |-> made_changes, calls |-> {}]
  ELSE
  LET source == Head(edges)[1]
      target == Head(edges)[2]
      mover == g.mover[Head(edges)]
      source_has_data ==
        IF mover.source_keys # <<>>
        THEN ps[source][mover.source_keys[1]] # None ELSE TRUE
      r == execute_mover(ps, g, source, target)
      previous_target_value ==
        IF Truthy(mover.target_key) THEN ps[target][mover.target_key] ELSE None
      current_target_value ==
        IF Truthy(mover.target_key) THEN r.data[target][mover.target_key] ELSE None
  IN
  IF ~source_has_data \/ ~has_comp(mover)
  THEN BackwardPass(ps, g, Tail(edges), made_changes)
  ELSE IF r.err # "none"
  THEN WithCalls(BackwardPass(r.data, g, Tail(edges), made_changes), r.calls)
  ELSE WithCalls(BackwardPass(r.data, g, Tail(edges),
                              made_changes \/ value_changed(previous_target_value,
                                                            current_target_value)),
                 r.calls)

\* a solve_backward that makes one pass over the movers and stops
BackwardLoopOnePass(ps, g, edges, iteration) ==
  LET r == BackwardPass(ps, g, edges, FALSE) IN
  [data |-> r.data, iteration |-> iteration + 1, capped |-> FALSE, calls |-> r.calls]

\* a loop whose cap lets one more pass through (`if iteration > 101`)
BackwardTripLateCap(st, g, edges) ==
  IF st.left THEN st
  ELSE IF st.iteration + 1 > MaxIterations + 1
  THEN [data |-> st.data, iteration |-> st.iteration + 1, left |-> TRUE, capped |-> TRUE,
        calls |-> st.calls]
  ELSE Only({[data |-> r.data, iteration |-> st.iteration + 1,
               left |-> ~r.made_changes, capped |-> FALSE,
               calls |-> st.calls \cup r.calls] :
              r \in {BackwardPass(st.data, g, edges, FALSE)}})

\* one trip through `while made_changes:`; st is the state of the loop:
\* the perch values, the trips made, whether the loop has been left, and
\* whether it was left at the cap; the pass after the cap is not run
BackwardTrip(st, g, edges) ==
  IF st.left THEN st
  ELSE IF st.iteration + 1 > MaxIterations
  THEN [data |-> st.data, iteration |-> st.iteration + 1, left |-> TRUE, capped |-> TRUE,
        calls |-> st.calls]
  ELSE Only({[data |-> r.data, iteration |-> st.iteration + 1,
               left |-> ~r.made_changes, capped |-> FALSE,
               calls |-> st.calls \cup r.calls] :
              r \in {BackwardPass(st.data, g, edges, FALSE)}})

RECURSIVE BackwardTrips(_, _, _, _)
\* n trips in a row, the first half of them and then the rest
BackwardTrips(st, g, edges, n) ==
  IF n = 1 THEN BackwardTrip(st, g, edges)
  ELSE Only({IF half.left THEN half ELSE BackwardTrips(half, g, edges, n - n \div 2) :
              half \in {BackwardTrips(st, g, edges, n \div 2)}})

\* `while made_changes:` entered with made_changes true after `iteration`
\* trips: the loop is left after MaxIterations + 1 trips at the latest
BackwardLoop(ps, g, edges, iteration) ==
  Only({[data |-> st.data, iteration |-> st.iteration, capped |-> st.capped,
         calls |-> st.calls] :
        st \in {BackwardTrips([data |-> ps, iteration |-> iteration,
                               left |-> FALSE, capped |-> FALSE, calls |-> {}],
                              g, edges, MaxIterations + 1 - iteration)}})

AllComp(ps) == \A p \in DOMAIN ps : comp(ps[p]) # None

\* a solver call that raised err before it ran a mover
Failed(err, ps) ==
  [err |-> err, data |-> ps, solved |-> FALSE, simulated |-> FALSE,
   capped |-> FALSE, calls |-> {}]

\* solve_backward on the board (mbe: movers_backward_exist): the exception
\* raised or "none", the perch values afterwards, whether is_solved is set
\* solve_backward without the check for a perch with a comp value
SolveBackwardUnseeded(ps, g, order, mbe) ==
  IF ~mbe THEN Failed(NoBackwardMovers, ps)
  ELSE IF topological_sort(g, order).cyclic
  THEN Failed(BackwardCycles, ps)
  ELSE IF BackwardKeyError(ps, g)
  THEN Failed("KeyError", ps)
  ELSE Only({[err |-> "none", data |-> r.data, solved |-> AllComp(r.data),
               simulated |-> FALSE, capped |-> r.capped, calls |-> r.calls] :
              r \in {BackwardLoop(ps, g, EdgesFrom(g, order), 0)}})

SolveBackward(ps, g, order, mbe) ==
  IF ~mbe THEN Failed(NoBackwardMovers, ps)
  ELSE IF \A p \in DOMAIN ps : comp(ps[p]) = None
  THEN Failed(NoCompValue, ps)
  ELSE IF topological_sort(g, order).cyclic
  THEN Failed(BackwardCycles, ps)
  ELSE IF BackwardKeyError(ps, g)
  THEN Failed("KeyError", ps)
  ELSE Only({[err |-> "none", data |-> r.data, solved |-> AllComp(r.data),
               simulated |-> FALSE, capped |-> r.capped, calls |-> r.calls] :
              r \in {BackwardLoop(ps, g, EdgesFrom(g, order), 0)}})

(***************************************************************************)
(* solve_forward.                                                         *)
(***************************************************************************)
RECURSIVE ForwardEdges(_, _, _)
\* the (predecessor, perch) pairs one pass visits: the perches in
\* topological order except those in skip, each with its predecessors in
\* the order of forward_graph.predecessors
ForwardEdges(g, topo_order, skip) ==
  IF topo_order = <<>> THEN <<>>
  ELSE LET perch_name == Head(topo_order) IN
       (IF perch_name \in skip THEN <<>>
        ELSE [i \in 1..Len(g.pred[perch_name]) |-> <<g.pred[perch_name][i], perch_name>>])
       \o ForwardEdges(g, Tail(topo_order), skip)

RECURSIVE ForwardPass(_, _, _, _)
\* one pass over the pairs; err is the exception that leaves solve_forward
ForwardPass(ps, g, edges, made_changes) ==
  IF edges = <<>>
  THEN [err |-> "none", data |-> ps, made_changes |-> made_changes, calls |-> {}]
  ELSE
  LET pred == Head(edges)[1]
      perch_name == Head(edges)[2]
      mover == g.mover[Head(edges)]
      r == execute_mover(ps, g, pred, perch_name)
      previous_value ==
        IF Truthy(mover.target_key) THEN ps[perch_name][mover.target_key] ELSE None
      current_value ==
        IF Truthy(mover.target_key) THEN r.data[perch_name][mover.target_key] ELSE None
  IN
  IF sim(ps[pred]) = None \/ ~has_comp(mover)
  THEN ForwardPass(ps, g, Tail(edges), made_changes)
  ELSE IF Truthy(mover.target_key) /\ ~HasKey(ps[perch_name], mover.target_key)
  THEN [err |-> "KeyError", data |-> ps, made_changes |-> made_changes, calls |-> {}]
  ELSE IF r.err # "none"
  THEN WithCalls(ForwardPass(r.data, g, Tail(edges), made_changes), r.calls)
  ELSE WithCalls(ForwardPass(r.data, g, Tail(edges),
                             made_changes \/ value_changed(previous_value, current_value)),
                 r.calls)

\* one trip through `while made_changes:` of solve_forward; st is the state
\* of the loop: the exception that left it or "none", the perch values, the
\* trips made, whether the loop has been left, and whether it was left at
\* the cap; the perches of initial_perches are skipped in the first pass
\* only
ForwardTrip(st, g, topo_order, initial_perches) ==
  IF st.left THEN st
  ELSE IF st.iteration + 1 > MaxIterations
  THEN [err |-> "none", data |-> st.data, iteration |-> st.iteration + 1,
        left |-> TRUE, capped |-> TRUE, calls |-> st.calls]
  ELSE Only({[err |-> r.err, data |-> r.data, iteration |-> st.iteration + 1,
               left |-> r.err # "none" \/ ~r.made_changes, capped |-> FALSE,
               calls |-> st.calls \cup r.calls] :
              r \in {ForwardPass(st.data, g,
                                 ForwardEdges(g, topo_order,
                                              IF st.iteration + 1 = 1
                                              THEN initial_perches ELSE {}),
                                 FALSE)}})

RECURSIVE ForwardTrips(_, _, _, _, _)
\* n trips in a row, the first half of them and then the rest
ForwardTrips(st, g, topo_order, initial_perches, n) ==
  IF n = 1 THEN ForwardTrip(st, g, topo_order, initial_perches)
  ELSE Only({IF half.left THEN half
             ELSE ForwardTrips(half, g, topo_order, initial_perches, n - n \div 2) :
              half \in {ForwardTrips(st, g, topo_order, initial_perches, n \div 2)}})

\* `while made_changes:` entered with made_changes true after `iteration`
\* trips: the loop is left after MaxIterations + 1 trips at the latest
ForwardLoop(ps, g, topo_order, initial_perches, iteration) ==
  Only({[err |-> st.err, data |-> st.data, iteration |-> st.iteration,
         capped |-> st.capped, calls |-> st.calls] :
        st \in {ForwardTrips([err |-> "none", data |-> ps, iteration |-> iteration,
                              left |-> FALSE, capped |-> FALSE, calls |-> {}],
                             g, topo_order, initial_perches,
                             MaxIterations + 1 - iteration)}})

\* solve_forward on the board: the exception raised or "none", the perch
\* values afterwards, whether is_simulated is set
SolveForward(ps, g, order) ==
  LET initial_perches == {p \in DOMAIN ps : comp(ps[p]) # None /\ sim(ps[p]) # None}
      topo == topological_sort(g, order)
  IN
  IF \A p \in DOMAIN ps : comp(ps[p]) = None
  THEN Failed(NoCompValueForward, ps)
  ELSE IF initial_perches = {}
  THEN Failed(NoCompAndSim, ps)
  ELSE IF topo.cyclic
  THEN Failed("NetworkXUnfeasible", ps)
  ELSE LET r == ForwardLoop(ps, g, topo.order, initial_perches, 0) IN
       IF r.err # "none"
       THEN [err |-> r.err, data |-> r.data, solved |-> FALSE, simulated |-> FALSE,
             capped |-> FALSE, calls |-> r.calls]
       ELSE [err |-> "none", data |-> r.data, solved |-> FALSE,
             simulated |-> \E p \in DOMAIN r.data : sim(r.data[p]) # None,
             capped |-> r.capped, calls |-> r.calls]

(***************************************************************************)
(* The solver's public methods as actions.                                *)
(***************************************************************************)
\* CircuitBoard.execute_mover(source_name, target_name, edge_type)
execute_mover_call(source_name, target_name, edge_type) ==
  IF _get_graph(edge_type) = NoGraph
  THEN /\ last' = Invoked(SolverCall("execute_mover", "ValueError", perches, FALSE, FALSE), {})
       /\ UNCHANGED <<structure, perches, flags, solves>>
  ELSE
  LET r == execute_mover(perches, _get_graph(edge_type), source_name, target_name) IN
  /\ perches' = r.data
  /\ last' = Invoked(SolverCall("execute_mover", IF r.err = "none" THEN "ok" ELSE r.err,
                                perches, FALSE, FALSE), r.calls)
  /\ UNCHANGED <<structure, flags, solves>>

\* CircuitBoard.solve_backward()
solve_backward ==
  \E r \in {SolveBackward(perches, backward_graph, perch_order, movers_backward_exist)} :
  /\ solves < MaxSolves
  /\ solves' = solves + 1
  /\ perches' = r.data
  /\ is_solved' = IF r.solved THEN TRUE ELSE is_solved
  /\ last' = Invoked(SolverCall("solve_backward", IF r.err = "none" THEN "ok" ELSE r.err,
                                perches, r.capped, FALSE), r.calls)
  /\ UNCHANGED <<structure, has_empty_perches, has_model, movers_backward_exist,
                 is_portable, is_solvable, is_simulated>>

\* CircuitBoard.solve_forward()
solve_forward ==
  \E r \in {SolveForward(perches, forward_graph, perch_order)} :
  /\ solves < MaxSolves
  /\ solves' = solves + 1
  /\ perches' = r.data
  /\ is_simulated' = IF r.simulated THEN TRUE ELSE is_simulated
  /\ last' = Invoked(SolverCall("solve_forward", IF r.err = "none" THEN "ok" ELSE r.err,
                                perches, r.capped, FALSE), r.calls)
  /\ UNCHANGED <<structure, has_empty_perches, has_model, movers_backward_exist,
                 is_portable, is_solvable, is_solved>>

\* CircuitBoard.solve(): the outcome is the exception raised, or the value
\* returned ("True" / "False")
solve ==
  LET again == last.op = "solve" /\ last.outcome = "True" IN
  /\ solves < MaxSolves
  /\ solves' = solves + 1
  /\ IF ~has_model \/ ~is_solvable
     THEN /\ last' = SolverCall("solve", IF ~has_model THEN NotFinalized ELSE NotSolvable,
                               perches, FALSE, again)
          /\ UNCHANGED <<perches, is_solved, is_simulated>>
     ELSE
     \E b \in {SolveBackward(perches, backward_graph, perch_order, movers_backward_exist)} :
     \E f \in {SolveForward(b.data, forward_graph, perch_order)} :
     IF b.err # "none"
     THEN /\ perches' = b.data
          /\ last' = Invoked(SolverCall("solve", "False", perches, FALSE, again), b.calls)
          /\ UNCHANGED <<is_solved, is_simulated>>
     ELSE IF f.err # "none"
     THEN /\ perches' = f.data
          /\ is_solved' = IF b.solved THEN TRUE ELSE is_solved
          /\ last' = Invoked(SolverCall("solve", "False", perches, b.capped, again),
                             b.calls \cup f.calls)
          /\ UNCHANGED is_simulated
     ELSE /\ perches' = f.data
          /\ is_solved' = TRUE
          /\ is_simulated' = IF f.simulated THEN TRUE ELSE is_simulated
          /\ last' = Invoked(SolverCall("solve", "True", perches, b.capped \/ f.capped, again),
                             b.calls \cup f.calls)
  /\ UNCHANGED <<structure, has_empty_perches, has_model, movers_backward_exist,
                 is_portable, is_solvable>>

(***************************************************************************)
(* eulerian.py.                                                           *)
(***************************************************************************)
RECURSIVE AddNodes(_, _)
\* add_nodes_from
AddNodes(g, nodes) ==
  IF nodes = <<>> THEN g ELSE AddNodes(add_node(g, Head(nodes)), Tail(nodes))

RECURSIVE AddEdges(_, _, _)
\* add_edge(u, v, edge_type=tag) for the edges in order
AddEdges(g, edges, tag) ==
  IF edges = <<>> THEN g
  ELSE AddEdges(add_edge(g, Head(edges)[1], Head(edges)[2], tag), Tail(edges), tag)

\* the combined DiGraph: an ordered pair that carries a backward and a
\* forward mover is one edge, tagged "forward" by the later add_edge
CombinedGraph(bg, fg, order) ==
  AddEdges(AddEdges(AddNodes(EmptyGraph, order), EdgesFrom(bg, order), "backward"),
           EdgesFrom(fg, order), "forward")

\* the subgraph find_backward_forward_path builds from the edges of one tag
TaggedGraph(cg, order, tag) ==
  AddEdges(AddNodes(EmptyGraph, order),
           SeqFilter(EdgesFrom(cg, order), {e \in DOMAIN cg.mover : cg.mover[e] = tag}),
           tag)

RECURSIVE ReachFrom(_, _)
\* the nodes reachable from the set S (S included)
ReachFrom(g, S) ==
  LET T == S \cup {v \in DOMAIN g.succ : \E u \in S : has_edge(g, u, v)} IN
  IF T = S THEN S ELSE ReachFrom(g, T)

\* nx.has_path
has_path(g, source, target) == target \in ReachFrom(g, {source})

\* nx.is_strongly_connected
is_strongly_connected(g) ==
  \A n \in DOMAIN g.succ : ReachFrom(g, {n}) = DOMAIN g.succ

RECURSIVE Walks(_, _, _)
\* the walks of k edges from source
Walks(g, source, k) ==
  IF k = 0 THEN {<<source>>}
  ELSE UNION {{Append(w, v) : v \in Range(g.succ[w[Len(w)]])} :
              w \in Walks(g, source, k - 1)}

RECURSIVE ShortestFrom(_, _, _, _)
ShortestFrom(g, source, target, k) ==
  LET found == {w \in Walks(g, source, k) : w[Len(w)] = target} IN
  IF found # {} THEN found ELSE ShortestFrom(g, source, target, k + 1)

\* nx.shortest_path between connected nodes: the paths of least length;
\* for source = target it is [source]
shortest_paths(g, source, target) == ShortestFrom(g, source, target, 0)

\* find_backward_forward_path(graph, start_node): the lists it can return
\* (the order in which the set initial_perches is iterated is not fixed);
\* the empty set stands for None
find_backward_forward_path(cg, order, start_node) ==
  LET backward == TaggedGraph(cg, order, "backward")
      forward == TaggedGraph(cg, order, "forward")
      initial_perches == {n \in DOMAIN cg.succ : has_path(backward, start_node, n)}
  IN
  UNION {{bp \o Tail(fp) : bp \in shortest_paths(backward, start_node, ip),
                           fp \in shortest_paths(forward, ip, start_node)} :
         ip \in {n \in initial_perches : has_path(forward, n, start_node)}}

\* is_eulerian_circuit(circuit)
is_eulerian_circuit(bg, fg, order) ==
  LET cg == CombinedGraph(bg, fg, order)
      terminal_perches == _get_terminal_perches(bg, order)
  IN
  /\ EdgeSet(bg) # {} /\ EdgeSet(fg) # {}
  /\ terminal_perches # <<>>
  /\ \A n \in DOMAIN cg.succ : in_degree(cg, n) = out_degree(cg, n)
  /\ is_strongly_connected(cg)
  /\ \E i \in DOMAIN terminal_perches :
       find_backward_forward_path(cg, order, terminal_perches[i]) # {}

RECURSIVE FirstPath(_, _, _)
\* `for terminal_perch in terminal_perches: ... if path: return path`
FirstPath(cg, order, terminal_perches) ==
  IF terminal_perches = <<>> THEN {}
  ELSE LET paths == find_backward_forward_path(cg, order, Head(terminal_perches)) IN
       IF paths # {} THEN paths ELSE FirstPath(cg, order, Tail(terminal_perches))

\* find_eulerian_path(circuit): the lists it can return; {} stands for None
find_eulerian_path(bg, fg, order) ==
  IF EdgeSet(bg) = {} \/ EdgeSet(fg) = {} THEN {}
  ELSE FirstPath(CombinedGraph(bg, fg, order), order, _get_terminal_perches(bg, order))

\* the path `None` of find_eulerian_path in `last.res`
NotFound == <<>>

\* circuit.is_eulerian_circuit()
is_eulerian_circuit_call ==
  /\ last' = Call("is_eulerian_circuit",
                  IF is_eulerian_circuit(backward_graph, forward_graph, perch_order)
                  THEN "True" ELSE "False", NoPerches, <<>>)
  /\ UNCHANGED <<structure, perches, flags, solves>>

\* circuit.find_eulerian_path()
find_eulerian_path_call ==
  LET paths == find_eulerian_path(backward_graph, forward_graph, perch_order) IN
  /\ \/ /\ paths = {}
        /\ last' = Call("find_eulerian_path", "None", NoPerches, NotFound)
     \/ \E path \in paths :
          last' = Call("find_eulerian_path", "ok", NoPerches, path)
  /\ UNCHANGED <<structure, perches, flags, solves>>

(***************************************************************************)
(* A Perch held outside any board (perch.py): its data and the keys it    *)
(* records as initialized.                                                *)
(***************************************************************************)
\* Perch(name, data_types)
Perch(data_types) ==
  LET d == PerchInit(data_types) IN
  [data |-> d, _initialized_keys |-> {k \in DOMAIN d : d[k] # None}]

\* Perch.get_initialized_keys()
get_initialized_keys(p) == p._initialized_keys

\* is_initialized that looks at the values held
is_initialized_by_value(p, keys) ==
  LET ks == IF keys = Nothing THEN DOMAIN p.data ELSE keys[1] IN
  \A k \in ks : HasKey(p.data, k) /\ p.data[k] # None

\* Perch.is_initialized(keys); keys is Nothing for a call without argument
is_initialized(p, keys) ==
  LET ks == IF keys = Nothing THEN DOMAIN p.data ELSE keys[1] IN
  \A k \in ks : k \in p._initialized_keys

\* get_data that answers None for a key outside the schema (`self.data.get`)
get_data_default(p, key) ==
  IF HasKey(p.data, key) THEN [err |-> "none", val |-> p.data[key]]
  ELSE [err |-> "none", val |-> None]

\* Perch.get_data(key): the exception raised ("none" when it returns) and
\* the value returned
get_data(p, key) ==
  IF ~HasKey(p.data, key) THEN [err |-> "KeyError", val |-> None]
  ELSE [err |-> "none", val |-> p.data[key]]

\* perch.get_data(key)
get_data_call(key) ==
  /\ \E r \in {get_data(perch, key)} :
       last' = IF r.err = "none" THEN Call("get_data", "ok", NoPerches, <<r.val>>)
               ELSE Call("get_data", r.err, NoPerches, <<>>)
  /\ UNCHANGED <<structure, perches, flags, solves, perch, dag>>

\* perch.set_data(key, value)
set_data_call(key, value) ==
  /\ IF ~HasKey(perch.data, key)
     THEN /\ last' = Call("set_data", "KeyError", NoPerches, <<>>)
          /\ UNCHANGED perch
     ELSE /\ perch' = [data |-> set_data(perch.data, key, value),
                       _initialized_keys |-> perch._initialized_keys \cup {key}]
          /\ last' = Call("set_data", "ok", NoPerches, <<>>)
  /\ UNCHANGED <<structure, perches, flags, solves, dag>>

\* perch.add_data_key(key, initial_value)
add_data_key_call(key, initial_value) ==
  /\ IF HasKey(perch.data, key)
     THEN /\ last' = Call("add_data_key", "ValueError", NoPerches, <<>>)
          /\ UNCHANGED perch
     ELSE /\ perch' = [data |-> (key :> initial_value) @@ perch.data,
                       _initialized_keys |->
                         IF initial_value # None
                         THEN perch._initialized_keys \cup {key}
                         ELSE perch._initialized_keys]
          /\ last' = Call("add_data_key", "ok", NoPerches, <<>>)
  /\ UNCHANGED <<structure, perches, flags, solves, dag>>

\* perch.clear_data(keys); keys is Nothing for a call without argument
clear_data_call(keys) ==
  LET ks == IF keys = Nothing THEN DOMAIN perch.data ELSE keys[1] \cap DOMAIN perch.data IN
  /\ perch' = [data |-> [k \in DOMAIN perch.data |->
                           IF k \in ks THEN None ELSE perch.data[k]],
               _initialized_keys |-> perch._initialized_keys \ ks]
  /\ last' = Call("clear_data", "ok", NoPerches, <<>>)
  /\ UNCHANGED <<structure, perches, flags, solves, dag>>

(***************************************************************************)
(* The legacy Graph (graphcraft/graph.py, graphcraft/node.py).  A Node is *)
(* known by its name; parents[n] and children[n] are the lists of the     *)
(* Node n; sorted_nodes is <<>> until the cached property was computed    *)
(* and <<list>> afterwards.                                               *)
(***************************************************************************)
NodesMissing == "ValueError: Both nodes must be added before creating a dependency."
WouldCycle == "ValueError: Adding this edge would create a cycle in the graph."

RECURSIVE Remove(_, _)
\* list.remove(x): the list without the first occurrence of x
Remove(s, x) ==
  IF s = <<>> THEN <<>>
  ELSE IF Head(s) = x THEN Tail(s)
  ELSE <<Head(s)>> \o Remove(Tail(s), x)

\* DiGraph.remove_edge(u, v)
remove_edge(g, u, v) ==
  [succ |-> [g.succ EXCEPT ![u] = Remove(@, v)],
   pred |-> [g.pred EXCEPT ![v] = Remove(@, u)],
   mover |-> [e \in DOMAIN g.mover \ {<<u, v>>} |-> g.mover[e]]]

\* nx.is_directed_acyclic_graph
is_directed_acyclic_graph(g, nodes) == ~topological_sort(g, nodes).cyclic

\* Graph.add_node(Node(name, component))
Graph_add_node(name) ==
  /\ IF name \in Range(dag.nodes)
     THEN /\ last' = Call("add_node", "ValueError", NoPerches, <<>>)
          /\ UNCHANGED dag
     ELSE /\ dag' = [dag EXCEPT !.nodes = Append(@, name),
                                !.parents = (name :> <<>>) @@ @,
                                !.children = (name :> <<>>) @@ @,
                                !.graph = add_node(@, name)]
          /\ last' = Call("add_node", "ok", NoPerches, <<>>)
  /\ UNCHANGED <<structure, perches, flags, solves, perch>>

\* nodes[node_name].add_parent(nodes[parent_name]), called by the client on
\* two Nodes the Graph holds: the lists of the two Nodes grow, the DiGraph
\* is not touched and nothing is checked
add_parent(node_name, parent_name) ==
  /\ dag' = [dag EXCEPT !.parents[node_name] = Append(@, parent_name),
                        !.children[parent_name] = Append(@, node_name)]
  /\ last' = Call("add_parent", "ok", NoPerches, <<>>)
  /\ UNCHANGED <<structure, perches, flags, solves, perch>>

\* Graph.add_dependency(parent_name, child_name) -> Node.add_parent
add_dependency(parent_name, child_name) ==
  /\ IF parent_name \notin Range(dag.nodes) \/ child_name \notin Range(dag.nodes)
     THEN /\ last' = Call("add_dependency", NodesMissing, NoPerches, <<>>)
          /\ UNCHANGED dag
     ELSE LET parents == [dag.parents EXCEPT ![child_name] = Append(@, parent_name)]
              children == [dag.children EXCEPT ![parent_name] = Append(@, child_name)]
              graph == add_edge(dag.graph, parent_name, child_name, EmptyDict)
          IN
          IF ~is_directed_acyclic_graph(graph, dag.nodes)
          THEN /\ dag' = [dag EXCEPT
                            !.graph = remove_edge(graph, parent_name, child_name),
                            !.children = [children EXCEPT ![parent_name] =
                                            Remove(@, child_name)],
                            !.parents = [parents EXCEPT ![child_name] =
                                           Remove(@, parent_name)]]
               /\ last' = Call("add_dependency", WouldCycle, NoPerches, <<>>)
          ELSE /\ dag' = [dag EXCEPT !.graph = graph, !.parents = parents,
                                     !.children = children]
               /\ last' = Call("add_dependency", "ok", NoPerches, <<>>)
  /\ UNCHANGED <<structure, perches, flags, solves, perch>>

\* graph.sorted_nodes, a functools.cached_property: computed by the first
\* access and kept in the instance from then on
sorted_nodes ==
  /\ IF dag.sorted_nodes # Nothing
     THEN /\ last' = Call("sorted_nodes", "ok", NoPerches, dag.sorted_nodes[1])
          /\ UNCHANGED dag
     ELSE \E r \in {topological_sort(dag.graph, dag.nodes)} :
            IF r.cyclic
            THEN /\ last' = Call("sorted_nodes", "NetworkXUnfeasible", NoPerches, <<>>)
                 /\ UNCHANGED dag
            ELSE /\ dag' = [dag EXCEPT !.sorted_nodes = Some(r.order)]
                 /\ last' = Call("sorted_nodes", "ok", NoPerches, r.order)
  /\ UNCHANGED <<structure, perches, flags, solves, perch>>

\* the component of the Node called name, as the client wrote it:
\* lambda *args, **kwargs: name
component(name, args, kwargs) == name

\* the record of a Graph.__call__: the inputs given, the (node, positional
\* arguments, keyword arguments) of the components run, in the order they
\* ran, and the dict returned
GraphCall(outcome, inputs, executed, results) ==
  [op |-> "__call__", outcome |-> outcome, pre |-> NoPerches, res |-> executed,
   capped |-> FALSE, again |-> FALSE, calls |-> {}, inputs |-> inputs,
   results |-> results]

RECURSIVE Evaluate(_, _, _, _)
\* `for node_name in self.sorted_nodes:` over the rest of the list;
\* results[parent.name] raises KeyError for a parent that has not run
Evaluate(order, inputs, results, executed) ==
  IF order = <<>> THEN [err |-> "none", results |-> results, executed |-> executed]
  ELSE
  LET node_name == Head(order)
      parents == dag.parents[node_name]
  IN
  IF \E i \in DOMAIN parents : parents[i] \notin DOMAIN results
  THEN [err |-> "KeyError", results |-> results, executed |-> executed]
  ELSE
  LET parent_outputs == [i \in DOMAIN parents |-> results[parents[i]]]
      kwargs == IF node_name \in DOMAIN inputs THEN inputs[node_name] ELSE EmptyDict
  IN
  Evaluate(Tail(order), inputs,
           (node_name :> component(node_name, parent_outputs, kwargs)) @@ results,
           Append(executed, <<node_name, parent_outputs, kwargs>>))

\* Graph.__call__(inputs): reads the cached property sorted_nodes, which is
\* computed and kept if this is its first access
Graph_call(inputs) ==
  /\ \E topo \in {topological_sort(dag.graph, dag.nodes)} :
       IF dag.sorted_nodes = Nothing /\ topo.cyclic
       THEN /\ last' = GraphCall("NetworkXUnfeasible", inputs, <<>>, EmptyDict)
            /\ UNCHANGED dag
       ELSE \E order \in {IF dag.sorted_nodes # Nothing THEN dag.sorted_nodes[1]
                          ELSE topo.order} :
            \E r \in {Evaluate(order, inputs, EmptyDict, <<>>)} :
              /\ dag' = [dag EXCEPT !.sorted_nodes = Some(order)]
              /\ last' = GraphCall(IF r.err = "none" THEN "ok" ELSE r.err,
                                   inputs, r.executed, r.results)
  /\ UNCHANGED <<structure, perches, flags, solves, perch>>

(***************************************************************************)
(* Inputs of the calls.                                                   *)
(***************************************************************************)
\* a dict with the one key k
Single(k, v) == [x \in {k} |-> v]

\* a slot is a (source, target, edge_type) triple
Slots(pairs, edge_types) == {<<e[1], e[2], t>> : e \in pairs, t \in edge_types}

\* add_mover creates a mover while the graphs hold fewer than max movers, or
\* replaces one
Room(slot, max) ==
  \/ NumMovers < max
  \/ has_edge(_get_graph(slot[3]), slot[1], slot[2])

\* the calls, with their arguments drawn from the given sets
AddPerch(names, dicts) ==
  \E name \in names, d \in dicts : add_perch(name, d) /\ UNCHANGED <<perch, dag>>

\* add_mover(source, target, map_data, source_key=sk, target_key=tk,
\* edge_type=...) with keys[edge_type] the (sk, tk) on offer; NoKey leaves
\* the argument out
AddMover(slots, keys, maps, max) ==
  \E slot \in slots, map_data \in maps :
    \E k \in keys[slot[3]] :
      /\ Room(slot, max)
      /\ add_mover(slot[1], slot[2], map_data, EmptyDict, EmptyDict,
                   k[1], Nothing, k[2], slot[3])
      /\ UNCHANGED <<perch, dag>>

\* add_mover(source, target, source_keys=sks, target_key=tk, edge_type=...)
\* with target_keys[edge_type] the tk
AddMoverKeys(slots, source_keysets, target_keys, max) ==
  \E slot \in slots, sks \in source_keysets :
    /\ Room(slot, max)
    /\ add_mover(slot[1], slot[2], NoMap, EmptyDict, EmptyDict,
                 NoKey, Some(sks), target_keys[slot[3]], slot[3])
    /\ UNCHANGED <<perch, dag>>

\* add_mover(source, target, map_data, source_key=sk, source_keys=sks,
\* target_key=tk, edge_type=...), sk and sks given or left out
AddMoverEither(slots, maps, source_key_args, source_keys_args, target_keys, max) ==
  \E slot \in slots, map_data \in maps, sk \in source_key_args, sks \in source_keys_args :
    /\ Room(slot, max)
    /\ add_mover(slot[1], slot[2], map_data, EmptyDict, EmptyDict,
                 sk, sks, target_keys[slot[3]], slot[3])
    /\ UNCHANGED <<perch, dag>>

\* add_mover(source, target, map_data, parameters, numerical_hyperparameters,
\* source_key=sk, target_key=tk, edge_type=...)
AddMoverFields(slots, keys, maps, parameter_dicts, hyper_dicts, max) ==
  \E slot \in slots, map_data \in maps, parameters \in parameter_dicts,
     hyper \in hyper_dicts :
    \E k \in keys[slot[3]] :
      /\ Room(slot, max)
      /\ add_mover(slot[1], slot[2], map_data, parameters, hyper,
                   k[1], Nothing, k[2], slot[3])
      /\ UNCHANGED <<perch, dag>>

SetMoverParameters(slots, parameter_dicts) ==
  \E slot \in slots, parameters \in parameter_dicts :
    set_mover_parameters(slot[1], slot[2], slot[3], parameters) /\ UNCHANGED <<perch, dag>>

SetMoverNumericalHyperparameters(slots, hyper_dicts) ==
  \E slot \in slots, hyperparams \in hyper_dicts :
    set_mover_numerical_hyperparameters(slot[1], slot[2], slot[3], hyperparams)
    /\ UNCHANGED <<perch, dag>>

SetMoverMap(slots, maps) ==
  \E slot \in slots, map_data \in maps :
    set_mover_map(slot[1], slot[2], slot[3], map_data) /\ UNCHANGED <<perch, dag>>

SetMoverComp(slots, comps) ==
  \E slot \in slots, comp_func \in comps :
    set_mover_comp(slot[1], slot[2], slot[3], comp_func) /\ UNCHANGED <<perch, dag>>

FinalizeModel == finalize_model /\ UNCHANGED <<perch, dag>>

\* set_perch_data(name, {k: v for k in ks}), ks drawn from keysets
SetPerchData(names, keysets, seeds) ==
  \E name \in names, ks \in keysets, v \in seeds :
    set_perch_data(name, [k \in Range(ks) |-> v], ks) /\ UNCHANGED <<perch, dag>>

CreateCompsFromMaps(factory) == create_comps_from_maps(factory) /\ UNCHANGED <<perch, dag>>

ExecuteMover(slots) ==
  \E slot \in slots : execute_mover_call(slot[1], slot[2], slot[3]) /\ UNCHANGED <<perch, dag>>

SolveBackwardCall == solve_backward /\ UNCHANGED <<perch, dag>>
SolveForwardCall == solve_forward /\ UNCHANGED <<perch, dag>>
Solve == solve /\ UNCHANGED <<perch, dag>>
IsEulerianCircuit == is_eulerian_circuit_call /\ UNCHANGED <<perch, dag>>
FindEulerianPath == find_eulerian_path_call /\ UNCHANGED <<perch, dag>>

EdgeTypes == {"backward", "forward"}
ChainPairs == {<<"A", "B">>, <<"B", "A">>, <<"B", "C">>, <<"C", "B">>}
TwoNames == {"A", "B"}
TwoPairs == {<<"A", "B">>, <<"B", "A">>}

\* add_mover without key arguments
DefaultKeys == [backward |-> {<<NoKey, NoKey>>}, forward |-> {<<NoKey, NoKey>>}]
\* backward movers on "up", forward movers on "down"
UpDownKeys == [backward |-> {<<"up", "up">>}, forward |-> {<<"down", "down">>}]
\* the same, and backward movers that read "down"
SolveKeys == [backward |-> {<<"up", "up">>, <<"down", "up">>},
              forward |-> {<<"down", "down">>}]

(***************************************************************************)
(* Spec: a board over A, B, C with backward movers B -> A and C -> B and  *)
(* a forward mover A -> B, built, finalized, seeded and solved in any     *)
(* order.                                                                 *)
(***************************************************************************)
SolveSlots == {<<"B", "A", "backward">>, <<"C", "B", "backward">>,
               <<"A", "B", "forward">>}

Next ==
  \/ AddPerch(Names \ DOMAIN perches, {EmptyDict})
  \/ AddMover(SolveSlots, SolveKeys, {NoMap}, MaxMovers)
  \/ SetMoverComp(SolveSlots, {"add_one"})
  \/ FinalizeModel
  \/ SetPerchData(DOMAIN perches \cap {"A", "C"}, {<<"up", "down">>}, {1})
  \/ Solve

Spec == Init /\ [][Next]_vars

(***************************************************************************)
(* SpecPortable: movers get maps and transforms, by hand and by the       *)
(* factory.                                                               *)
(***************************************************************************)
Maps == {"square"}
Factory == [m \in Maps |-> "identity"]

NextPortable ==
  \/ AddPerch(TwoNames \ DOMAIN perches, {EmptyDict})
  \/ AddMover(Slots(TwoPairs, EdgeTypes), DefaultKeys, Maps \cup {NoMap}, MaxMovers)
  \/ SetMoverMap(Slots(TwoPairs, EdgeTypes), Maps \cup {NoMap})
  \/ SetMoverComp(Slots(TwoPairs, EdgeTypes), {"identity"})
  \/ CreateCompsFromMaps(Factory)

SpecPortable == Init /\ [][NextPortable]_vars

(***************************************************************************)
(* SpecEuler: the structure of a board over A, B, C and the Eulerian      *)
(* queries.                                                               *)
(***************************************************************************)
NextEuler ==
  \/ AddPerch(Names \ DOMAIN perches, {EmptyDict})
  \/ AddMover(Slots(ChainPairs, EdgeTypes), DefaultKeys, {NoMap}, MaxRingMovers)
  \/ IsEulerianCircuit
  \/ FindEulerianPath

SpecEuler == Init /\ [][NextEuler]_vars

(***************************************************************************)
(* SpecBackward: backward movers B -> A and C -> B, seeds, execute_mover, *)
(* solve_backward.                                                        *)
(***************************************************************************)
BackwardSlots == {<<"B", "A", "backward">>, <<"C", "B", "backward">>}

NextBackward ==
  \/ AddPerch(Names \ DOMAIN perches, {EmptyDict})
  \/ AddMover(BackwardSlots, UpDownKeys, {NoMap}, MaxMovers)
  \/ SetMoverComp(BackwardSlots, {"halve", "identity"})
  \/ SetPerchData(DOMAIN perches, {<<"up">>}, Seeds)
  \/ ExecuteMover(BackwardSlots)
  \/ SolveBackwardCall

SpecBackward == Init /\ [][NextBackward]_vars

(***************************************************************************)
(* SpecForward: forward movers A -> B and B -> C, a backward mover C -> B,*)
(* A created with or without an upstream value, B and C with one,         *)
(* solve_backward, solve_forward.                                         *)
(***************************************************************************)
ForwardSlots == {<<"A", "B", "forward">>, <<"B", "C", "forward">>,
                 <<"C", "B", "backward">>}

NextForward ==
  \/ AddPerch({"A"} \ DOMAIN perches, {EmptyDict, Single("up", 1)})
  \/ AddPerch({"B", "C"} \ DOMAIN perches, {Single("up", 1)})
  \/ AddMover(ForwardSlots, UpDownKeys, {NoMap}, MaxMovers)
  \/ SetMoverComp(ForwardSlots, {"add_one"})
  \/ SetPerchData(DOMAIN perches \cap {"A", "B"}, {<<"down">>}, Seeds)
  \/ SolveBackwardCall
  \/ SolveForwardCall

SpecForward == Init /\ [][NextForward]_vars

(***************************************************************************)
(* SpecCycle: backward movers A -> B and B -> A, one of them or both (a   *)
(* cycle), upstream seeds that may be NaN, solve_backward and solve.      *)
(***************************************************************************)
CycleSlots == Slots(TwoPairs, {"backward"})

NextCycle ==
  \/ AddPerch(TwoNames \ DOMAIN perches, {EmptyDict})
  \/ AddMover(CycleSlots, UpDownKeys, {NoMap}, MaxMovers)
  \/ SetMoverComp(CycleSlots, {"identity", "add_one"})
  \/ SetPerchData(DOMAIN perches, {<<"up">>}, Seeds \cup {NaN})
  \/ FinalizeModel
  \/ SolveBackwardCall
  \/ Solve

SpecCycle == Init /\ [][NextCycle]_vars

(***************************************************************************)
(* SpecKeys: a backward and a forward mover A -> B that read both "up"    *)
(* and "down", perches created empty or with a key of their own, values   *)
(* set to a number or to None, solve_backward and solve_forward.          *)
(***************************************************************************)
KeysSlots == {<<"A", "B", "backward">>, <<"A", "B", "forward">>}
TargetKeys == [backward |-> "up", forward |-> "down"]

NextKeys ==
  \/ AddPerch(TwoNames \ DOMAIN perches, {EmptyDict, Single("x", 1)})
  \/ AddMoverKeys(KeysSlots, {<<"up", "down">>}, TargetKeys, MaxMovers)
  \/ SetMoverComp(KeysSlots, {"identity"})
  \/ SetPerchData(DOMAIN perches, {<<>>, <<"up">>, <<"down">>}, Seeds \cup {None})
  \/ SolveBackwardCall
  \/ SolveForwardCall

SpecKeys == Init /\ [][NextKeys]_vars

(***************************************************************************)
(* SpecPerch: a Perch created with or without values, then written,      *)
(* extended and cleared.                                                  *)
(***************************************************************************)
PerchKeys == {"up", "down", "x"}
Values == Seeds \cup {None}

\* a fresh board and a Perch beside it
InitPerch ==
  \E data_types \in {EmptyDict, Single("up", 1), Single("x", 1)} :
    /\ perch = Perch(data_types)
    /\ dag = Graph
    /\ perch_order = <<>>
    /\ perches = NoPerches
    /\ backward_graph = EmptyGraph
    /\ forward_graph = EmptyGraph
    /\ has_empty_perches = TRUE
    /\ has_model = FALSE
    /\ movers_backward_exist = FALSE
    /\ is_portable = FALSE
    /\ is_solvable = FALSE
    /\ is_solved = FALSE
    /\ is_simulated = FALSE
    /\ solves = 0
    /\ last = Call("__init__", "ok", NoPerches, <<>>)

SetData(keys, values) == \E key \in keys, value \in values : set_data_call(key, value)
AddDataKey(keys, values) ==
  \E key \in keys, initial_value \in values : add_data_key_call(key, initial_value)
ClearData(keysets) == \E keys \in keysets : clear_data_call(keys)

NextPerch ==
  \/ SetData(PerchKeys, Values)
  \/ AddDataKey({"x"}, Values)
  \/ ClearData({Nothing, Some({"up"}), Some({"x"}), Some({"up", "down"})})

SpecPerch == InitPerch /\ [][NextPerch]_vars

(***************************************************************************)
(* SpecExec: movers A -> B and a backward mover A -> A that read one key  *)
(* or two, A with a key "x" of its own and B with or without one,         *)
(* execute_mover.                                                         *)
(***************************************************************************)
ExecSlots == {<<"A", "B", "backward">>, <<"A", "B", "forward">>,
              <<"A", "A", "backward">>}
ExecTargetKeys == [backward |-> "up", forward |-> "x"]

NextExec ==
  \/ AddPerch({"A"} \ DOMAIN perches, {Single("x", 1)})
  \/ AddPerch({"B"} \ DOMAIN perches, {EmptyDict, Single("x", 1)})
  \/ AddMoverKeys(ExecSlots, {<<"up">>, <<"up", "x">>}, ExecTargetKeys, MaxExecMovers)
  \/ SetMoverComp(ExecSlots, {"identity", "halve"})
  \/ SetPerchData(DOMAIN perches \cap {"A"}, {<<"up">>}, {MaxVal})
  \/ ExecuteMover(ExecSlots)

SpecExec == Init /\ [][NextExec]_vars

(***************************************************************************)
(* SpecDerive: movers between A and B with or without a map, transforms   *)
(* set by hand (halve) and derived by the factory (identity).             *)
(***************************************************************************)
NextDerive ==
  \/ AddPerch(TwoNames \ DOMAIN perches, {EmptyDict})
  \/ AddMover(Slots(TwoPairs, EdgeTypes), UpDownKeys, Maps \cup {NoMap}, MaxMovers)
  \/ SetMoverMap(Slots(TwoPairs, EdgeTypes), Maps \cup {NoMap})
  \/ SetMoverComp(Slots(TwoPairs, EdgeTypes), {"halve"})
  \/ CreateCompsFromMaps(Factory)

SpecDerive == Init /\ [][NextDerive]_vars

(***************************************************************************)
(* SpecStruct: perches added under free and taken names, movers added     *)
(* between present and absent perches with source_key, source_keys, both  *)
(* or neither, finalize_model.                                            *)
(***************************************************************************)
StructDicts == {EmptyDict, Single("up", 1)}
StructSlots == {<<"A", "B", "backward">>, <<"A", "B", "forward">>,
                <<"B", "A", "backward">>}
SourceKeyArgs == {NoKey, "up"}
SourceKeysArgs == {Nothing, Some(<<"up">>)}

NextStruct ==
  \/ AddPerch(TwoNames, StructDicts)
  \/ AddMoverEither(StructSlots, {NoMap}, SourceKeyArgs, SourceKeysArgs,
                    TargetKeys, MaxExecMovers)
  \/ FinalizeModel

SpecStruct == Init /\ [][NextStruct]_vars

(***************************************************************************)
(* SpecAccess: the Perch of SpecPerch, written, extended, cleared and     *)
(* read.                                                                  *)
(***************************************************************************)
GetData(keys) == \E key \in keys : get_data_call(key)

NextAccess ==
  \/ NextPerch
  \/ GetData(PerchKeys)

SpecAccess == InitPerch /\ [][NextAccess]_vars

(***************************************************************************)
(* SpecFields: a backward and a forward mover A -> B created with a map,  *)
(* parameters and hyperparameters, each overwritten by its setter, on a   *)
(* board that is finalized, given transforms by the factory, seeded,      *)
(* executed and solved.                                                   *)
(***************************************************************************)
FieldSlots == {<<"A", "B", "backward">>, <<"A", "B", "forward">>}
ParameterDicts == {Single("beta", 1)}
HyperDicts == {Single("tol", 1)}

NextFields ==
  \/ AddPerch(TwoNames \ DOMAIN perches, {EmptyDict})
  \/ AddMoverFields(FieldSlots, UpDownKeys, Maps, ParameterDicts, HyperDicts, MaxMovers)
  \/ SetMoverMap({<<"A", "B", "backward">>}, {NoMap})
  \/ SetMoverParameters({<<"A", "B", "forward">>}, {Single("beta", 2)})
  \/ SetMoverNumericalHyperparameters({<<"A", "B", "forward">>}, {Single("tol", 2)})
  \/ FinalizeModel
  \/ CreateCompsFromMaps(Factory)
  \/ SetPerchData(DOMAIN perches \cap {"A"}, {<<"up", "down">>}, {1})
  \/ ExecuteMover(FieldSlots)
  \/ Solve

SpecFields == Init /\ [][NextFields]_vars

(***************************************************************************)
(* SpecSeed: a backward and a forward mover A -> B, upstream and          *)
(* downstream values set one at a time, solve_backward.                   *)
(***************************************************************************)
NextSeed ==
  \/ AddPerch(TwoNames \ DOMAIN perches, {EmptyDict})
  \/ AddMover(KeysSlots, UpDownKeys, {NoMap}, MaxMovers)
  \/ SetMoverComp(KeysSlots, {"identity"})
  \/ SetPerchData(DOMAIN perches, {<<"up">>, <<"down">>}, {1})
  \/ SolveBackwardCall

SpecSeed == Init /\ [][NextSeed]_vars

(***************************************************************************)
(* SpecGraph: a legacy Graph over A, B, C: nodes and dependencies added   *)
(* in any order, between nodes that are there or not, add_parent called   *)
(* on the Nodes of the Graph, sorted_nodes read.                          *)
(***************************************************************************)
InitGraph ==
  /\ dag = Graph
  /\ perch = NoPerch
  /\ perch_order = <<>>
  /\ perches = NoPerches
  /\ backward_graph = EmptyGraph
  /\ forward_graph = EmptyGraph
  /\ has_empty_perches = TRUE
  /\ has_model = FALSE
  /\ movers_backward_exist = FALSE
  /\ is_portable = FALSE
  /\ is_solvable = FALSE
  /\ is_solved = FALSE
  /\ is_simulated = FALSE
  /\ solves = 0
  /\ last = Call("__init__", "ok", NoPerches, <<>>)

GraphAddNode(names) == \E name \in names : Graph_add_node(name)

RECURSIVE NumDependencies(_)
\* the lengths of the parents lists of the nodes, added up
NumDependencies(nodes) ==
  IF nodes = <<>> THEN 0
  ELSE Len(dag.parents[Head(nodes)]) + NumDependencies(Tail(nodes))

\* add_dependency while the Nodes hold fewer than MaxDependencies
AddDependency(names) ==
  \E parent_name \in names, child_name \in names :
    /\ NumDependencies(dag.nodes) < MaxDependencies
    /\ add_dependency(parent_name, child_name)

\* add_parent between Nodes of the Graph while the Nodes hold fewer than
\* MaxDependencies
AddParent(names) ==
  \E node_name \in names \cap Range(dag.nodes),
     parent_name \in names \cap Range(dag.nodes) :
    /\ NumDependencies(dag.nodes) < MaxDependencies
    /\ add_parent(node_name, parent_name)

SortedNodes == sorted_nodes

NextGraph ==
  \/ GraphAddNode(Names)
  \/ AddDependency(Names)
  \/ AddParent(Names)
  \/ SortedNodes

SpecGraph == InitGraph /\ [][NextGraph]_vars

(***************************************************************************)
(* SpecCall: the legacy Graph of SpecGraph, called with and without       *)
(* keyword inputs between the additions.                                  *)
(***************************************************************************)
GraphInputs == {EmptyDict, Single("A", Single("x", 1))}

GraphCallWith(inputs_on_offer) == \E inputs \in inputs_on_offer : Graph_call(inputs)

NextCall ==
  \/ GraphAddNode(Names)
  \/ AddDependency(Names)
  \/ AddParent(Names)
  \/ GraphCallWith(GraphInputs)

SpecCall == InitGraph /\ [][NextCall]_vars

(***************************************************************************)
(* SpecReplace: movers A -> B of both edge types and a backward mover     *)
(* A -> A, added and added again with another map and other keys, with    *)
(* transforms set in between.                                             *)
(***************************************************************************)
NextReplace ==
  \/ AddPerch(TwoNames \ DOMAIN perches, {EmptyDict})
  \/ AddMover(ExecSlots, SolveKeys, Maps \cup {NoMap}, MaxMovers)
  \/ SetMoverComp(ExecSlots, {"identity"})

SpecReplace == Init /\ [][NextReplace]_vars

(***************************************************************************)
(* SpecShared: movers A -> C and B -> C of one edge type or of both, with *)
(* transforms that write different values to the same key of C, perches   *)
(* seeded with both values, solve_backward and solve_forward.             *)
(***************************************************************************)
SharedSlots == Slots({<<"A", "C">>, <<"B", "C">>}, EdgeTypes)

NextShared ==
  \/ AddPerch(Names \ DOMAIN perches, {EmptyDict})
  \/ AddMover(SharedSlots, UpDownKeys, {NoMap}, MaxExecMovers)
  \/ SetMoverComp(SharedSlots, {"identity", "add_one"})
  \/ SetPerchData(DOMAIN perches, {<<"up", "down">>}, {1})
  \/ SolveBackwardCall
  \/ SolveForwardCall

SpecShared == Init /\ [][NextShared]_vars

(***************************************************************************)
(* SpecCap: a backward and a forward mover A -> B, values that may be     *)
(* NaN (a pass that writes NaN always sees a change), solve_backward and  *)
(* solve_forward.                                                         *)
(***************************************************************************)
NextCap ==
  \/ AddPerch(TwoNames \ DOMAIN perches, {EmptyDict})
  \/ AddMover(KeysSlots, UpDownKeys, {NoMap}, MaxMovers)
  \/ SetMoverComp(KeysSlots, {"identity", "add_one"})
  \/ SetPerchData(DOMAIN perches, {<<"up", "down">>}, Seeds \cup {NaN})
  \/ SolveBackwardCall
  \/ SolveForwardCall

SpecCap == Init /\ [][NextCap]_vars

(***************************************************************************)
(* SpecBundle: backward movers B -> A and C -> B that read "up" alone or  *)
(* "up" and "down" together and hand on what they read, upstream values   *)
(* everywhere and a downstream value at C, solve_backward.                *)
(***************************************************************************)
NextBundle ==
  \/ AddPerch(Names \ DOMAIN perches, {EmptyDict})
  \/ AddMoverKeys(BackwardSlots, {<<"up">>, <<"up", "down">>}, TargetKeys, MaxExecMovers)
  \/ SetMoverComp(BackwardSlots, {"identity"})
  \/ SetPerchData(DOMAIN perches, {<<"up">>}, {1})
  \/ SetPerchData(DOMAIN perches \cap {"C"}, {<<"down">>}, {MaxVal})
  \/ SolveBackwardCall

SpecBundle == Init /\ [][NextBundle]_vars

(***************************************************************************)
(* SpecRaise: movers A -> B and A -> C of either edge type that read "up" *)
(* alone or "up" and "down" together; their transform is halve, which     *)
(* raises TypeError for the dict it gets from two keys.  A is seeded,     *)
(* solve_backward and solve_forward.                                      *)
(***************************************************************************)
RaiseSlots == Slots({<<"A", "B">>, <<"A", "C">>}, EdgeTypes)

\* the next name of a fixed order of additions
InTurn(names) ==
  IF Len(perch_order) < Len(names) THEN {names[Len(perch_order) + 1]} ELSE {}

NextRaise ==
  \/ AddPerch(InTurn(<<"A", "B", "C">>), {EmptyDict})
  \/ AddMoverKeys(RaiseSlots, {<<"up">>, <<"up", "down">>}, TargetKeys, MaxExecMovers)
  \/ SetMoverComp(RaiseSlots, {"halve"})
  \/ SetPerchData(DOMAIN perches \cap {"A"}, {<<"up", "down">>}, {MaxVal})
  \/ SolveBackwardCall
  \/ SolveForwardCall

SpecRaise == Init /\ [][NextRaise]_vars

(***************************************************************************)
(* SpecMixed: perches A and B with the default schema or with the extra   *)
(* key "x", finalize_model, and set_perch_data with dicts whose keys are  *)
(* of the schema, outside it, or both in either order.                    *)
(***************************************************************************)
MixedKeysets == {<<"up">>, <<"x">>, <<"up", "x">>, <<"x", "up">>}

NextMixed ==
  \/ AddPerch(TwoNames \ DOMAIN perches, {EmptyDict, Single("x", 1)})
  \/ FinalizeModel
  \/ SetPerchData(DOMAIN perches, MixedKeysets, Seeds)

SpecMixed == Init /\ [][NextMixed]_vars

(***************************************************************************)
(* Vocabulary of the properties.                                          *)
(***************************************************************************)
Acyclic(g) == ~topological_sort(g, perch_order).cyclic
Movers(g) == {g.mover[e] : e \in DOMAIN g.mover}
AllMovers == Movers(backward_graph) \cup Movers(forward_graph)
AllExecutable == \A m \in AllMovers : has_comp(m)
SomeComp == \E p \in DOMAIN perches : comp(perches[p]) # None

\* backward movers read and write "up" only, forward movers "down" only
StandardKeys ==
  /\ \A m \in Movers(backward_graph) : m.source_keys = <<"up">> /\ m.target_key = "up"
  /\ \A m \in Movers(forward_graph) : m.source_keys = <<"down">> /\ m.target_key = "down"

\* the movers of g are exactly those of edges, each with the transform
\* comps[edge], reading and writing key
Chain(g, edges, comps, key) ==
  /\ EdgeSet(g) = edges
  /\ \A e \in edges :
       /\ g.mover[e].comp = comps[e]
       /\ g.mover[e].source_keys = <<key>>
       /\ g.mover[e].target_key = key

\* the perches A, B, C before the last call, with only `name` holding a
\* value, v under `key`
OnlySeeded(name, key, v) ==
  /\ DOMAIN last.pre = Names
  /\ \A p \in Names :
       \A k \in DOMAIN last.pre[p] :
         last.pre[p][k] = IF p = name /\ k = key THEN v ELSE None

(***************************************************************************)
(* solve_backward on the chain B -> A, C -> B (SpecBackward).             *)
(***************************************************************************)
HalveIdentity == (<<"B", "A">> :> "halve") @@ (<<"C", "B">> :> "identity")

\* C1 as stated: with backward movers B -> A (halve) and C -> B (identity)
\* and only A's upstream value seeded with v, solve_backward ends with
\* B.up = halve(v) and C.up = halve(v).
C1_BackwardFromSeededTarget ==
  \A v \in Seeds :
    (/\ last.op = "solve_backward"
     /\ Chain(backward_graph, {<<"B", "A">>, <<"C", "B">>}, HalveIdentity, "up")
     /\ OnlySeeded("A", "up", v))
    => /\ perches["B"]["up"] = v \div 2
       /\ perches["C"]["up"] = v \div 2

(***************************************************************************)
(* solve and the lifecycle flags (Spec).                                  *)
(***************************************************************************)
\* C2 as stated: a solve() that directly follows a solve() that returned
\* True, on a finalized solvable board with acyclic graphs, leaves every key
\* of every perch as the first solve left it.
C2_SolveIdempotent ==
  [][(/\ last.op = "solve" /\ last.outcome = "True"
      /\ last'.op = "solve"
      /\ Acyclic(backward_graph) /\ Acyclic(forward_graph))
     => perches' = perches]_vars

\* C2 amended: a solve() that directly follows a solve() that returned True
\* and whose convergence loops ended on a pass without change, on a board
\* whose backward movers read and write only "up" and whose forward movers
\* read and write only "down", returns True and leaves every key of every
\* perch as the first solve left it.
C2_SolveIdempotentStandardKeys ==
  [][(/\ last.op = "solve" /\ last.outcome = "True" /\ ~last.capped
      /\ last'.op = "solve"
      /\ StandardKeys)
     => (perches' = perches /\ last'.outcome = "True")]_vars

\* a second solve() in a row has returned on a board with standard keys
\* where the backward movers C -> B and B -> A and the forward mover A -> B
\* have written their targets
C2_Witness ==
  /\ last.op = "solve" /\ last.outcome = "True" /\ last.again
  /\ StandardKeys
  /\ perches = last.pre
  /\ EdgeSet(backward_graph) = {<<"B", "A">>, <<"C", "B">>}
  /\ EdgeSet(forward_graph) = {<<"A", "B">>}
  /\ AllExecutable
  /\ perches["C"]["up"] = 1
  /\ perches["B"]["up"] = 2
  /\ perches["A"]["up"] = 3
  /\ perches["A"]["down"] = 1
  /\ perches["B"]["down"] = 2

\* the condition the solvable flag is specified to be equivalent to
Solvable ==
  /\ has_model
  /\ EdgeSet(backward_graph) # {} => SomeComp
  /\ EdgeSet(forward_graph) # {} =>
       \E p \in _get_initial_perches(forward_graph) : sim(perches[p]) # None

\* C3 as stated: is_solvable is true exactly when the model is finalized, a
\* backward mover implies some perch with an upstream value, and a forward
\* mover implies some forward-initial perch with a downstream value.
C3_SolvableIff == is_solvable <=> Solvable

\* C7 as stated: whenever is_solved becomes true, through solve_backward or
\* through solve, every perch holds an upstream value.
C7_SolvedHasAllUpstream ==
  [][(~is_solved /\ is_solved') => AllComp(perches')]_vars

\* C8 as stated: solve() on a finalized, solvable board with acyclic graphs
\* and a transform on every mover returns True, with is_simulated set when
\* there are forward movers and is_solved set when there are only backward
\* movers.
C8_SolveSucceeds ==
  (/\ last.op = "solve"
   /\ is_solvable /\ Solvable
   /\ AllMovers # {} /\ AllExecutable
   /\ Acyclic(backward_graph) /\ Acyclic(forward_graph))
  => /\ last.outcome = "True"
     /\ EdgeSet(forward_graph) # {} => is_simulated
     /\ EdgeSet(forward_graph) = {} => is_solved

\* C10 as stated: has_model becomes true only by finalize_model, and is false
\* after every add_perch and add_mover.
C10_FinalizedUntilMutation ==
  [][/\ (~has_model /\ has_model') => last'.op = "finalize_model"
     /\ (last'.op \in {"add_perch", "add_mover"} /\ last'.outcome = "ok")
          => ~has_model']_vars

(***************************************************************************)
(* The Eulerian queries (SpecEuler).                                      *)
(***************************************************************************)
\* path is a closed walk from a backward-terminal perch whose first steps
\* are backward movers (followed with or against their orientation), whose
\* remaining steps are forward movers, and in which every backward and every
\* forward mover is one step exactly
RoundTrip(path) ==
  LET n == Len(path)
      BackwardStep(i) == \/ has_edge(backward_graph, path[i], path[i + 1])
                         \/ has_edge(backward_graph, path[i + 1], path[i])
      ForwardStep(i) == has_edge(forward_graph, path[i], path[i + 1])
  IN
  /\ n >= 1
  /\ path[1] = path[n]
  /\ path[1] \in Range(_get_terminal_perches(backward_graph, perch_order))
  /\ \E j \in 1..n :
       /\ \A i \in 1..(j - 1) : BackwardStep(i)
       /\ \A i \in j..(n - 1) : ForwardStep(i)
       /\ \A e \in EdgeSet(backward_graph) :
            Cardinality({i \in 1..(j - 1) : {path[i], path[i + 1]} = {e[1], e[2]}}) = 1
       /\ \A e \in EdgeSet(forward_graph) :
            Cardinality({i \in j..(n - 1) : <<path[i], path[i + 1]>> = e}) = 1

\* C4 as stated: whenever is_eulerian_circuit holds of the board, the path
\* find_eulerian_path returned is a round trip over every backward and every
\* forward mover.
C4_EulerianPathIsRoundTrip ==
  (/\ last.op = "find_eulerian_path"
   /\ is_eulerian_circuit(backward_graph, forward_graph, perch_order))
  => (last.outcome = "ok" /\ RoundTrip(last.res))

\* the board with backward movers C -> B, B -> A and forward movers A -> B,
\* B -> C
Ring ==
  /\ DOMAIN perches = Names
  /\ EdgeSet(backward_graph) = {<<"C", "B">>, <<"B", "A">>}
  /\ EdgeSet(forward_graph) = {<<"A", "B">>, <<"B", "C">>}

\* C5 as stated: on the ring is_eulerian_circuit returns True and
\* find_eulerian_path returns a path of length 5 from A to A.
C5_RingPath ==
  Ring =>
    /\ last.op = "is_eulerian_circuit" => last.outcome = "True"
    /\ last.op = "find_eulerian_path" =>
         /\ last.outcome = "ok"
         /\ Len(last.res) = 5
         /\ last.res[1] = "A" /\ last.res[5] = "A"

(***************************************************************************)
(* solve_forward on the chain A -> B, B -> C (SpecForward).               *)
(***************************************************************************)
AddOnes == (<<"A", "B">> :> "add_one") @@ (<<"B", "C">> :> "add_one")

\* solve_forward was called on the chain with A.down = v and neither B.down
\* nor C.down set
ForwardFromA(v) ==
  /\ last.op = "solve_forward"
  /\ Chain(forward_graph, {<<"A", "B">>, <<"B", "C">>}, AddOnes, "down")
  /\ DOMAIN last.pre = Names
  /\ last.pre["A"]["down"] = v
  /\ last.pre["B"]["down"] = None
  /\ last.pre["C"]["down"] = None

\* C6 as stated: with forward movers A -> B and B -> C (add_one each),
\* A.down seeded with v and is_solved true, solve_forward ends with
\* B.down = v + 1 and C.down = v + 2.
C6_ForwardFromSeededSource ==
  \A v \in Seeds :
    (ForwardFromA(v) /\ is_solved)
    => /\ perches["B"]["down"] = v + 1
       /\ perches["C"]["down"] = v + 2

\* C6 amended: the same when A also holds an upstream value; solve_forward
\* then returns normally.
C6_ForwardFromInitialSource ==
  \A v \in Seeds :
    (ForwardFromA(v) /\ is_solved /\ last.pre["A"]["up"] # None)
    => /\ last.outcome = "ok"
       /\ perches["B"]["down"] = v + 1
       /\ perches["C"]["down"] = v + 2

\* solve_forward has returned on the chain, called with is_solved true, A
\* holding an upstream value and the downstream value MaxVal
C6_Witness ==
  /\ ForwardFromA(MaxVal) /\ is_solved /\ last.pre["A"]["up"] # None
  /\ last.outcome = "ok"
  /\ perches["C"]["down"] = MaxVal + 2

(***************************************************************************)
(* The portable flag (SpecPortable).                                      *)
(***************************************************************************)
\* C9 as stated: is_portable is true exactly when every mover that has a
\* map has a transform.
C9_PortableIff ==
  is_portable <=> \A m \in AllMovers : has_map(m) => has_comp(m)

(***************************************************************************)
(* The preconditions and the flag of solve_forward (SpecForward).         *)
(***************************************************************************)
\* some perch without incoming forward mover holds both an upstream and a
\* downstream value
InitialPerchReady ==
  \E p \in _get_initial_perches(forward_graph) :
    comp(perches[p]) # None /\ sim(perches[p]) # None

\* some perch has a downstream value after the step and had none before
GainedDownstream ==
  \E p \in DOMAIN perches : sim(perches[p]) = None /\ sim(perches'[p]) # None

\* C13 as stated: a solve_forward called while is_solved is false, or while
\* no forward-initial perch holds both values, raises and leaves every
\* perch value as it was.
C13_ForwardNeedsSolved ==
  [][(last'.op = "solve_forward" /\ ~(is_solved /\ InitialPerchReady))
     => (last'.outcome # "ok" /\ perches' = perches)]_vars

\* C14 as stated: solve_forward sets is_simulated when some perch gained a
\* downstream value during the call, and leaves the flag as it was when no
\* perch gained one.
C14_SimulatedIffGained ==
  [][last'.op = "solve_forward"
     => is_simulated' = (is_simulated \/ GainedDownstream)]_vars

(***************************************************************************)
(* The degree condition of is_eulerian_circuit (SpecEuler).               *)
(***************************************************************************)
\* in the union of the backward and the forward movers, each mover one
\* edge, every perch has as many incoming as outgoing movers
BalancedUnion ==
  \A n \in DOMAIN perches :
    in_degree(backward_graph, n) + in_degree(forward_graph, n)
      = out_degree(backward_graph, n) + out_degree(forward_graph, n)

\* C19 as stated: is_eulerian_circuit returns False whenever some perch has
\* a different number of incoming and outgoing movers, a pair of perches
\* with a backward and a forward mover counting twice.
C19_UnbalancedIsNotEulerian ==
  (last.op = "is_eulerian_circuit" /\ ~BalancedUnion) => last.outcome = "False"

(***************************************************************************)
(* The keys of a mover added without key arguments (SpecPortable, whose   *)
(* movers are all added that way).                                        *)
(***************************************************************************)
\* the schema of Perch(name)
DefaultSchema == DOMAIN PerchInit(EmptyDict)

\* C20 as stated: a backward mover added without keys reads <<"up">> and
\* writes "up", a forward mover added without keys reads <<"up", "down">>
\* and writes "down", and these keys are keys of a default perch.
C20_DefaultKeysInSchema ==
  /\ \A m \in Movers(backward_graph) :
       /\ m.source_keys = <<"up">> /\ m.target_key = "up"
       /\ Range(m.source_keys) \cup {m.target_key} \subseteq DefaultSchema
  /\ \A m \in Movers(forward_graph) :
       /\ m.source_keys = <<"up", "down">> /\ m.target_key = "down"
       /\ Range(m.source_keys) \cup {m.target_key} \subseteq DefaultSchema

(***************************************************************************)
(* Cycles, errors and the iteration cap (SpecCycle).                      *)
(***************************************************************************)
\* some mover of g lies on a directed cycle
OnCycle(g) == \E e \in EdgeSet(g) : has_path(g, e[2], e[1])

\* C11 as stated: solve_backward on a board whose backward movers form a
\* cycle raises the error of the cycle check, changes no perch value and
\* does not set is_solved.
C11_CycleFailsUnchanged ==
  [][(last'.op = "solve_backward" /\ OnCycle(backward_graph))
     => /\ last'.outcome = BackwardCycles
        /\ perches' = perches
        /\ is_solved' = is_solved]_vars

\* C11 amended: the same when some perch holds an upstream value; when none
\* does, the call raises the error of the missing upstream value, and
\* equally changes nothing.
C11_CycleFailsAfterPrecondition ==
  [][(last'.op = "solve_backward" /\ OnCycle(backward_graph))
     => /\ last'.outcome = IF SomeComp THEN BackwardCycles ELSE NoCompValue
        /\ perches' = perches
        /\ is_solved' = is_solved]_vars

\* solve_backward has raised the error of the cycle check on the cycle
\* A -> B -> A, both movers executable and B holding an upstream value
C11_Witness ==
  /\ last.op = "solve_backward" /\ last.outcome = BackwardCycles
  /\ EdgeSet(backward_graph) = {<<"A", "B">>, <<"B", "A">>}
  /\ \A m \in Movers(backward_graph) : has_comp(m)
  /\ perches["B"]["up"] = 1 /\ perches["A"]["up"] = None
  /\ ~is_solved

\* no perch holds both an upstream and a downstream value after the step
NoPerchReady ==
  \A p \in DOMAIN perches' : comp(perches'[p]) = None \/ sim(perches'[p]) = None

\* C12 as stated: a solve() on a finalized, solvable board whose backward
\* movers form a cycle, or whose backward pass or forward pass precondition
\* is unmet, raises an error; it does not return a value.
C12_SolveRaises ==
  [][(/\ last'.op = "solve" /\ has_model /\ is_solvable
      /\ \/ OnCycle(backward_graph)
         \/ ~movers_backward_exist
         \/ ~SomeComp
         \/ NoPerchReady)
     => last'.outcome \notin {"True", "False"}]_vars

\* C16 as stated: a solve_backward whose convergence loop stopped at the
\* iteration cap returns normally and does not set is_solved.
C16_CapLeavesUnsolved ==
  [][(last'.op = "solve_backward" /\ last'.capped)
     => (last'.outcome = "ok" /\ is_solved' = is_solved)]_vars

(***************************************************************************)
(* The inputs of the transforms and has_empty_perches (SpecKeys).         *)
(***************************************************************************)
\* the input of a transform holds None for one of the source keys
Absent(input) ==
  IF input.kind = "bare" THEN input.val = None
  ELSE \E k \in DOMAIN input.dict : input.dict[k] = None

\* C15 as stated: every transform invocation of a solve_backward or a
\* solve_forward got a value other than None for every source key of its
\* mover.
C15_InvokedWithAllSourceKeys ==
  last.op \in {"solve_backward", "solve_forward"}
    => \A c \in last.calls : ~Absent(c[3])

\* no perch holds a value other than None under any key after the step
AllEmpty ==
  \A p \in DOMAIN perches' : \A k \in DOMAIN perches'[p] : perches'[p][k] = None

\* C18 as stated: has_empty_perches is true after a step exactly when it was
\* true before and no perch holds a value under any key after the step; it
\* starts true, so it is true exactly as long as no perch has held a value.
C18_EmptyUntilFirstValue ==
  [][has_empty_perches' = (has_empty_perches /\ AllEmpty)]_vars

(***************************************************************************)
(* The initialized keys of a Perch (SpecPerch).                           *)
(***************************************************************************)
\* the keys of the schema that hold a value other than None
HoldingValue == {k \in DOMAIN perch.data : perch.data[k] # None}

\* C17 as stated: get_initialized_keys() is the set of keys whose value is
\* not None, and is_initialized() without argument is true exactly when no
\* key of the schema holds None.
C17_InitializedKeysHoldValues ==
  /\ get_initialized_keys(perch) = HoldingValue
  /\ is_initialized(perch, Nothing) <=> HoldingValue = DOMAIN perch.data

(***************************************************************************)
(* execute_mover and the perches it leaves alone (SpecExec).              *)
(***************************************************************************)
\* what the transform of the mover of slot returns on the values its source
\* perch holds
Returned(slot) ==
  LET mover == _get_graph(slot[3]).mover[<<slot[1], slot[2]>>]
      src == perches[slot[1]]
  IN execute(mover.comp,
             IF Len(mover.source_keys) = 1 THEN Bare(src[mover.source_keys[1]])
             ELSE Bundle([k \in Range(mover.source_keys) |-> src[k]]))

\* the target perch of slot after a call that returned: the keys of a
\* bundle that are in its schema are written, a bare value is written to
\* the target key of the mover, None writes nothing
Written(slot) ==
  LET mover == _get_graph(slot[3]).mover[<<slot[1], slot[2]>>]
      tgt == perches[slot[2]]
      result == Returned(slot)
  IN [k \in DOMAIN tgt |->
        IF result.kind = "dict" /\ k \in DOMAIN result.dict THEN result.dict[k]
        ELSE IF result.kind = "bare" /\ result.val # None /\ k = mover.target_key
        THEN result.val
        ELSE tgt[k]]

\* C21 as stated: execute_mover leaves both graphs, every flag and every
\* perch other than the target as they were; when it returns, the target
\* perch holds the keys of a returned bundle that are in its schema (the
\* other keys of the bundle are dropped) or the bare value returned under the
\* target key of the mover, and its other keys are as before; when it raises,
\* the target perch is as before too.
C21_ExecuteWritesOnlyTarget ==
  [][\A slot \in ExecSlots :
       execute_mover_call(slot[1], slot[2], slot[3])
       => /\ UNCHANGED <<structure, flags>>
          /\ DOMAIN perches' = DOMAIN perches
          /\ \A p \in DOMAIN perches \ {slot[2]} : perches'[p] = perches[p]
          /\ IF last'.outcome = "ok"
             THEN perches'[slot[2]] = Written(slot)
             ELSE perches' = perches]_vars

\* execute_mover has returned from a mover A -> B that read "up" and "x" of
\* A and handed them through: B, which has no key "x", got the "up" of A
C21_Witness ==
  /\ last.op = "execute_mover" /\ last.outcome = "ok"
  /\ \E input \in {Bundle([up |-> 2, x |-> 1])} : <<"A", "B", input>> \in last.calls
  /\ DOMAIN perches = {"A", "B"}
  /\ last.pre["B"] = [up |-> None, down |-> None]
  /\ perches["B"] = [up |-> 2, down |-> None]
  /\ perches["A"] = last.pre["A"]

(***************************************************************************)
(* create_comps_from_maps (SpecDerive).                                   *)
(***************************************************************************)
\* the mover m after the factory was applied to it if it has a map and no
\* transform
Derived(m) ==
  IF has_map(m) /\ ~has_comp(m) THEN [m EXCEPT !.comp = Factory[m.map_data]] ELSE m

\* C22 as stated: create_comps_from_maps(factory) gives the transform of the
\* factory to exactly the movers of both graphs that have a map and no
\* transform, leaves every other mover as it was, and afterwards every
\* mover with a map has a transform and is_portable is true.
C22_DerivesExactlyMissing ==
  [][last'.op = "create_comps_from_maps"
     => /\ \A e \in DOMAIN backward_graph.mover :
             backward_graph'.mover[e] = Derived(backward_graph.mover[e])
        /\ \A e \in DOMAIN forward_graph.mover :
             forward_graph'.mover[e] = Derived(forward_graph.mover[e])
        /\ EdgeSet(backward_graph') = EdgeSet(backward_graph)
        /\ EdgeSet(forward_graph') = EdgeSet(forward_graph)
        /\ \A m \in Movers(backward_graph') \cup Movers(forward_graph') :
             has_map(m) => has_comp(m)
        /\ is_portable']_vars

\* create_comps_from_maps has returned on a board with a mapped mover that
\* got its transform from the factory, a mapped mover that kept the one set
\* by hand, and a mover without map that has none
C22_Witness ==
  /\ last.op = "create_comps_from_maps"
  /\ is_portable
  /\ \E m \in AllMovers : has_map(m) /\ m.comp = "identity"
  /\ \E m \in AllMovers : has_map(m) /\ m.comp = "halve"
  /\ \E m \in AllMovers : ~has_map(m) /\ ~has_comp(m)

(***************************************************************************)
(* Additions that fail (SpecStruct).                                      *)
(***************************************************************************)
\* the call raised and perches, graphs and flags are as before it
FailedUnchanged(op) ==
  /\ last'.op = op /\ last'.outcome = "ValueError"
  /\ UNCHANGED <<structure, perches, flags>>

\* C23 as stated: add_perch under a name that is taken, add_mover with a
\* source or target that is not a perch of the board, and add_mover given
\* both source_key and source_keys raise and leave the perches, both graphs
\* and every flag as before the call.
C23_FailedAdditionChangesNothing ==
  [][/\ \A name \in DOMAIN perches, d \in StructDicts :
          add_perch(name, d) => FailedUnchanged("add_perch")
     /\ \A slot \in StructSlots, map_data \in {NoMap},
           sk \in SourceKeyArgs, sks \in SourceKeysArgs :
          (/\ \/ slot[1] \notin DOMAIN perches
              \/ slot[2] \notin DOMAIN perches
              \/ (sk # NoKey /\ sks # Nothing)
           /\ add_mover(slot[1], slot[2], map_data, EmptyDict, EmptyDict,
                        sk, sks, TargetKeys[slot[3]], slot[3]))
          => FailedUnchanged("add_mover")]_vars

\* an addition has raised on a finalized board that holds a perch with a
\* value and a mover
C23_Witness ==
  /\ last.op \in {"add_perch", "add_mover"} /\ last.outcome = "ValueError"
  /\ has_model
  /\ ~has_empty_perches
  /\ AllMovers # {}

(***************************************************************************)
(* Reading and writing the keys of a Perch (SpecAccess).                  *)
(***************************************************************************)
\* C24 as stated: get_data and set_data on a key outside the schema of the
\* perch raise KeyError; get_data returns nothing, set_data stores nothing
\* and leaves the values, the schema and the initialized keys as before.
C24_UnknownKeyRaises ==
  [][\A key \in PerchKeys \ DOMAIN perch.data :
       /\ get_data_call(key)
          => (last'.outcome = "KeyError" /\ last'.res = <<>> /\ perch' = perch)
       /\ \A value \in Values :
            set_data_call(key, value)
            => (last'.outcome = "KeyError" /\ perch' = perch)]_vars

\* get_data or set_data has raised KeyError on a perch without key "x" that
\* holds a value
C24_Witness ==
  /\ last.op \in {"get_data", "set_data"} /\ last.outcome = "KeyError"
  /\ ~HasKey(perch.data, "x")
  /\ perch._initialized_keys # {}

\* C25 as stated: after set_data(key, value) on a key of the schema,
\* get_data(key) returns value and is_initialized(key) is true.
C25_SetThenGet ==
  [][\A key \in DOMAIN perch.data, value \in Values :
       set_data_call(key, value)
       => /\ get_data(perch', key) = [err |-> "none", val |-> value]
          /\ is_initialized(perch', Some({key}))]_vars

\* set_data has stored a value under a key that was not initialized, and
\* get_data and is_initialized answer for it
C25_Witness ==
  /\ last.op = "set_data" /\ last.outcome = "ok"
  /\ get_data(perch, "down") = [err |-> "none", val |-> 2]
  /\ is_initialized(perch, Some({"down"}))
  /\ ~is_initialized(perch, Some({"up"}))

(***************************************************************************)
(* The declarative fields of a mover (SpecFields).                        *)
(***************************************************************************)
\* map, parameters and hyperparameters of a mover
Fields(m) == <<m.map_data, m.parameters, m.numerical_hyperparameters>>

\* every mover of g is in g' with the same map, parameters and
\* hyperparameters
FieldsKept(g, gnext) ==
  /\ EdgeSet(g) \subseteq EdgeSet(gnext)
  /\ \A e \in EdgeSet(g) : Fields(gnext.mover[e]) = Fields(g.mover[e])

\* C26 as stated: the mover add_mover creates holds the map, parameters and
\* hyperparameters the call was given, and every call other than add_mover,
\* set_mover_map, set_mover_parameters and
\* set_mover_numerical_hyperparameters (finalize_model,
\* create_comps_from_maps, set_perch_data, execute_mover, solve) leaves
\* these three fields of every mover as they were.
C26_FieldsRoundTrip ==
  [][/\ \A slot \in FieldSlots, map_data \in Maps,
           parameters \in ParameterDicts, hyper \in HyperDicts :
          \A k \in UpDownKeys[slot[3]] :
            (/\ {slot[1], slot[2]} \subseteq DOMAIN perches
             /\ add_mover(slot[1], slot[2], map_data, parameters, hyper,
                          k[1], Nothing, k[2], slot[3]))
            => Fields(_get_graph(slot[3])'.mover[<<slot[1], slot[2]>>])
                 = <<map_data, parameters, hyper>>
     /\ last'.op \notin {"add_mover", "set_mover_map", "set_mover_parameters",
                         "set_mover_numerical_hyperparameters"}
        => /\ FieldsKept(backward_graph, backward_graph')
           /\ FieldsKept(forward_graph, forward_graph')]_vars

\* solve() has returned True on a board whose backward mover still holds
\* the map, parameters and hyperparameters add_mover gave it and whose
\* forward mover holds the parameters a setter gave it; both got their
\* transform from the factory and both have run
C26_Witness ==
  /\ last.op = "solve" /\ last.outcome = "True"
  /\ has_edge(backward_graph, "A", "B") /\ has_edge(forward_graph, "A", "B")
  /\ Fields(backward_graph.mover[<<"A", "B">>])
       = <<"square", Single("beta", 1), Single("tol", 1)>>
  /\ Fields(forward_graph.mover[<<"A", "B">>])
       = <<"square", Single("beta", 2), Single("tol", 1)>>
  /\ AllExecutable
  /\ perches["B"] = [up |-> 1, down |-> 1]

(***************************************************************************)
(* The precondition of solve_backward (SpecSeed).                         *)
(***************************************************************************)
\* C27 as stated: solve_backward on a board without backward mover, or on
\* a board where no perch holds an upstream value, raises the error of its
\* precondition without invoking a transform, and leaves the perch values,
\* the graphs and every flag as they were.
C27_BackwardPrecondition ==
  [][(/\ last'.op = "solve_backward"
      /\ (EdgeSet(backward_graph) = {} \/ ~SomeComp))
     => /\ last'.outcome = IF EdgeSet(backward_graph) = {} THEN NoBackwardMovers
                           ELSE NoCompValue
        /\ last'.calls = {}
        /\ perches' = perches
        /\ UNCHANGED <<structure, flags>>]_vars

\* solve_backward has raised on a board with an executable backward mover
\* where no perch holds an upstream value, though A holds a downstream one
C27_Witness ==
  /\ last.op = "solve_backward" /\ last.outcome = NoCompValue
  /\ has_edge(backward_graph, "A", "B")
  /\ AllExecutable
  /\ ~SomeComp
  /\ HasKey(perches, "A") /\ perches["A"]["down"] = 1
  /\ ~is_solved

(***************************************************************************)
(* movers_backward_exist (SpecStruct).                                    *)
(***************************************************************************)
\* C28 as stated: in every reachable state movers_backward_exist is true
\* exactly when the backward graph has an edge, and a call of add_perch or
\* of add_mover with edge_type "forward" leaves the flag as it was.
C28_BackwardFlagIffEdges ==
  /\ [](movers_backward_exist <=> EdgeSet(backward_graph) # {})
  /\ [][/\ last'.op = "add_perch" => UNCHANGED movers_backward_exist
        /\ \A slot \in StructSlots, sk \in SourceKeyArgs, sks \in SourceKeysArgs :
             (/\ slot[3] = "forward"
              /\ add_mover(slot[1], slot[2], NoMap, EmptyDict, EmptyDict,
                           sk, sks, TargetKeys[slot[3]], slot[3]))
             => UNCHANGED movers_backward_exist]_vars

\* a forward mover was added to a board without backward mover
C28_Witness ==
  /\ last.op = "add_mover" /\ last.outcome = "ok"
  /\ EdgeSet(forward_graph) # {}
  /\ EdgeSet(backward_graph) = {}
  /\ ~movers_backward_exist

(***************************************************************************)
(* The legacy Graph (SpecGraph).                                          *)
(***************************************************************************)
\* the dependency parent_name -> child_name would close a cycle
ClosesCycle(parent_name, child_name) ==
  parent_name = child_name \/ has_path(dag.graph, child_name, parent_name)

\* C29 as stated: add_dependency that would close a cycle raises ValueError
\* and leaves the edges and the parents and children lists of every node as
\* before the call; add_dependency that names a node that was not added
\* raises ValueError and changes nothing; the DiGraph is acyclic in every
\* reachable state.
C29_CycleRejectedAndReverted ==
  /\ [](is_directed_acyclic_graph(dag.graph, dag.nodes))
  /\ [][last'.op = "add_dependency"
        => \A parent_name \in Names, child_name \in Names :
             /\ (/\ ~({parent_name, child_name} \subseteq Range(dag.nodes))
                 /\ add_dependency(parent_name, child_name))
                => (last'.outcome = NodesMissing /\ dag' = dag)
             /\ (/\ {parent_name, child_name} \subseteq Range(dag.nodes)
                 /\ ClosesCycle(parent_name, child_name)
                 /\ add_dependency(parent_name, child_name))
                => (last'.outcome = WouldCycle /\ dag' = dag)]_vars

\* add_dependency has raised for an edge that would close the cycle
\* A -> B -> C -> A
C29_Witness ==
  /\ last.op = "add_dependency" /\ last.outcome = WouldCycle
  /\ EdgeSet(dag.graph) = {<<"A", "B">>, <<"B", "C">>}
  /\ dag.parents = [A |-> <<>>, B |-> <<"A">>, C |-> <<"B">>]
  /\ dag.children = [A |-> <<"B">>, B |-> <<"C">>, C |-> <<>>]

\* s lists every node of the graph once, each after the nodes it depends on
TopologicalOrder(s, g, nodes) ==
  /\ Len(s) = Len(nodes)
  /\ Range(s) = Range(nodes)
  /\ \A i \in DOMAIN s, j \in DOMAIN s : has_edge(g, s[i], s[j]) => i < j

\* C30 as stated: every access of sorted_nodes, the accesses that follow an
\* add_node or an add_dependency included, returns a topological order of
\* all the nodes the graph holds at that time.
C30_SortedNodesCurrent ==
  [][(last'.op = "sorted_nodes" /\ last'.outcome = "ok")
     => TopologicalOrder(last'.res, dag'.graph, dag'.nodes)]_vars

(***************************************************************************)
(* Graph.__call__ (SpecCall).                                             *)
(***************************************************************************)
\* the components run by the last call, by position
Ran == last.res

\* C31 as stated: every call of the graph returns normally, runs the
\* component of every node of the graph exactly once, each node after all
\* of its parents, gives each the results of its parents as positional
\* arguments in the order the dependencies were added and the keyword
\* inputs given for the node, and returns one result per node.
C31_CallRunsEveryNode ==
  (last.op = "__call__")
  => /\ last.outcome = "ok"
     /\ Len(Ran) = Len(dag.nodes)
     /\ {Ran[i][1] : i \in DOMAIN Ran} = Range(dag.nodes)
     /\ \A i \in DOMAIN Ran :
          LET node_name == Ran[i][1]
              parents == dag.parents[node_name] IN
          /\ \A p \in DOMAIN parents : \E j \in 1..(i - 1) : Ran[j][1] = parents[p]
          /\ Ran[i][2] = [p \in DOMAIN parents |-> last.results[parents[p]]]
          /\ Ran[i][3] = IF node_name \in DOMAIN last.inputs
                         THEN last.inputs[node_name] ELSE EmptyDict
     /\ DOMAIN last.results = Range(dag.nodes)

(***************************************************************************)
(* The order of the lifecycle (SpecForward).                              *)
(***************************************************************************)
\* C32 as stated: no call sets is_solved on a board that is not finalized
\* (has_model false), and no call sets is_simulated while is_solved is
\* false after it.
C32_LifecycleOrder ==
  [][/\ (~is_solved /\ is_solved') => has_model
     /\ (~is_simulated /\ is_simulated') => is_solved']_vars

(***************************************************************************)
(* The order of a backward pass (SpecBackward).                           *)
(***************************************************************************)
\* C33 as stated: with executable backward movers C -> B and B -> A on
\* "up" and C holding an upstream value, a solve_backward that returns runs
\* B -> A after C -> B in every pass: each input B -> A is given is a
\* value C -> B returned.
C33_BackwardPassInTopologicalOrder ==
  (/\ last.op = "solve_backward" /\ last.outcome = "ok"
   /\ EdgeSet(backward_graph) = {<<"B", "A">>, <<"C", "B">>}
   /\ AllExecutable
   /\ StandardKeys
   /\ last.pre["C"]["up"] # None)
  => \A c \in last.calls :
       (c[1] = "B" /\ c[2] = "A")
       => \E d \in last.calls :
            /\ d[1] = "C" /\ d[2] = "B"
            /\ c[3] = execute(backward_graph.mover[<<"C", "B">>].comp, d[3])

(***************************************************************************)
(* One mover per triple (SpecReplace).                                    *)
(***************************************************************************)
NoDuplicates(s) == \A i \in DOMAIN s, j \in DOMAIN s : s[i] = s[j] => i = j

\* the adjacency dicts of g hold every edge once, and hold the edges that
\* carry a mover
Simple(g) ==
  /\ \A n \in DOMAIN g.succ : NoDuplicates(g.succ[n]) /\ NoDuplicates(g.pred[n])
  /\ EdgeSet(g) = {e \in (DOMAIN g.succ) \X (DOMAIN g.succ) : e[2] \in Range(g.succ[e[1]])}
  /\ EdgeSet(g) = {e \in (DOMAIN g.pred) \X (DOMAIN g.pred) : e[1] \in Range(g.pred[e[2]])}

\* C34 as stated: each graph holds at most one edge, with one mover, per
\* (source, target) pair in every reachable state; add_mover for a triple
\* that has a mover stores the new mover, with the map and the keys of the
\* call and without transform, in place of the old one, and leaves the
\* edges of both graphs and every mover of the other graph as they were.
C34_OneMoverPerTriple ==
  /\ [](Simple(backward_graph) /\ Simple(forward_graph))
  /\ [][last'.op = "add_mover"
        => \A slot \in ExecSlots, map_data \in Maps \cup {NoMap} :
             \A k \in SolveKeys[slot[3]] :
               (/\ has_edge(_get_graph(slot[3]), slot[1], slot[2])
                /\ add_mover(slot[1], slot[2], map_data, EmptyDict, EmptyDict,
                             k[1], Nothing, k[2], slot[3]))
               => /\ _get_graph(slot[3])'.mover[<<slot[1], slot[2]>>]
                       = Mover(slot[3], map_data, EmptyDict, EmptyDict, <<k[1]>>, k[2])
                  /\ \A e \in EdgeSet(_get_graph(slot[3])) \ {<<slot[1], slot[2]>>} :
                       _get_graph(slot[3])'.mover[e] = _get_graph(slot[3]).mover[e]
                  /\ _get_graph(slot[3])'.succ = _get_graph(slot[3]).succ
                  /\ _get_graph(slot[3])'.pred = _get_graph(slot[3]).pred
                  /\ EdgeSet(_get_graph(slot[3])') = EdgeSet(_get_graph(slot[3]))
                  /\ slot[3] = "backward" => forward_graph' = forward_graph
                  /\ slot[3] = "forward" => backward_graph' = backward_graph]_vars

\* add_mover has replaced the backward mover A -> B, the first edge of A,
\* by one with a map that reads "down" and has no transform; the backward
\* mover A -> A, added after it, and the forward mover A -> B kept their
\* transforms
C34_Witness ==
  /\ last.op = "add_mover" /\ last.outcome = "ok"
  /\ has_edge(backward_graph, "A", "B") /\ has_edge(backward_graph, "A", "A")
  /\ has_edge(forward_graph, "A", "B")
  /\ backward_graph.succ["A"] = <<"B", "A">>
  /\ backward_graph.mover[<<"A", "B">>]
       = Mover("backward", "square", EmptyDict, EmptyDict, <<"down">>, "up")
  /\ has_comp(backward_graph.mover[<<"A", "A">>])
  /\ has_comp(forward_graph.mover[<<"A", "B">>])

(***************************************************************************)
(* Several movers that write one key (SpecShared).                        *)
(***************************************************************************)
\* the movers of g into target that could run when the last call began:
\* they have a transform and their source held the value the pass looks at
EligibleBackward(target) ==
  {e \in EdgeSet(backward_graph) :
     /\ e[2] = target
     /\ has_comp(backward_graph.mover[e])
     /\ last.pre[e[1]][backward_graph.mover[e].source_keys[1]] # None}

EligibleForward(target) ==
  {e \in EdgeSet(forward_graph) :
     /\ e[2] = target
     /\ has_comp(forward_graph.mover[e])
     /\ sim(last.pre[e[1]]) # None}

\* the value the mover of edge e of g returns for the value its source held
\* when the last call began
ValueFrom(g, e) ==
  execute(g.mover[e].comp, Bare(last.pre[e[1]][g.mover[e].source_keys[1]])).val

\* the last element of the list s
Last(s) == s[Len(s)]

\* C35 as stated: when a solve_backward (solve_forward) that returns found
\* more than one eligible backward (forward) mover into one perch, all on
\* the same target key, each of them was executed and the key ends with
\* the value of the last of them in the order of the pass.
C35_LastWriterWins ==
  \A target \in DOMAIN perches :
    /\ (/\ last.op = "solve_backward" /\ last.outcome = "ok"
        /\ Cardinality(EligibleBackward(target)) > 1)
       => /\ \A e \in EligibleBackward(target) :
               \E c \in last.calls : c[1] = e[1] /\ c[2] = e[2]
          /\ perches[target]["up"] =
               ValueFrom(backward_graph,
                         Last(SeqFilter(EdgesFrom(backward_graph, perch_order),
                                        EligibleBackward(target))))
    /\ (/\ last.op = "solve_forward" /\ last.outcome = "ok"
        /\ Cardinality(EligibleForward(target)) > 1)
       => /\ \A e \in EligibleForward(target) :
               \E c \in last.calls : c[1] = e[1] /\ c[2] = e[2]
          /\ perches[target]["down"] =
               ValueFrom(forward_graph,
                         Last(SeqFilter(ForwardEdges(forward_graph,
                                                     topological_sort(forward_graph,
                                                                      perch_order).order,
                                                     {}),
                                        EligibleForward(target))))

(***************************************************************************)
(* The cap of the convergence loops (SpecCap).                            *)
(***************************************************************************)
\* the passes over the backward edges a solve_backward makes once its
\* checks have passed: the trips through the loop, less the trip that
\* stopped at the cap without a pass
BackwardPasses ==
  Only({IF r.capped THEN r.iteration - 1 ELSE r.iteration :
        r \in {BackwardLoop(perches, backward_graph,
                            EdgesFrom(backward_graph, perch_order), 0)}})

\* the same for solve_forward
ForwardPasses ==
  Only({IF r.capped THEN r.iteration - 1 ELSE r.iteration :
        r \in {ForwardLoop(perches, forward_graph,
                           topological_sort(forward_graph, perch_order).order,
                           {p \in DOMAIN perches :
                              comp(perches[p]) # None /\ sim(perches[p]) # None},
                           0)}})

\* C36 as stated: every call of solve_backward and of solve_forward ends,
\* by raising before its loop or by returning after at most MaxIterations
\* passes over its edges, whatever the transforms return; a loop that
\* reaches the cap is left and the call returns.
C36_SolversStopAtCap ==
  [][/\ (last'.op = "solve_backward" /\ last'.outcome = "ok")
        => BackwardPasses \in 1..MaxIterations
     /\ (last'.op = "solve_forward" /\ last'.outcome = "ok")
        => ForwardPasses \in 1..MaxIterations
     /\ (last'.op \in {"solve_backward", "solve_forward"} /\ last'.capped)
        => last'.outcome = "ok"]_vars

\* solve_backward has returned from a loop that stopped at the cap: every
\* pass wrote NaN to B
C36_Witness ==
  /\ last.op = "solve_backward" /\ last.outcome = "ok"
  /\ last.capped
  /\ last.pre["A"]["up"] = NaN
  /\ perches["B"]["up"] = NaN

(***************************************************************************)
(* The fixed point of solve_backward (SpecBundle).                        *)
(***************************************************************************)
\* C37 as stated: after a solve_backward that returned from a pass without
\* change (not from the cap), execute_mover on any backward mover that has
\* a transform and whose source holds the first source key leaves every
\* key of every perch as it is, for movers that return bundles too.
C37_BackwardFixedPoint ==
  (last.op = "solve_backward" /\ last.outcome = "ok" /\ ~last.capped)
  => \A e \in EdgeSet(backward_graph) :
       (/\ has_comp(backward_graph.mover[e])
        /\ perches[e[1]][backward_graph.mover[e].source_keys[1]] # None)
       => execute_mover(perches, backward_graph, e[1], e[2]).data = perches

(***************************************************************************)
(* Transforms that raise inside a solve (SpecRaise).                      *)
(***************************************************************************)
\* the graph the last call went over
SolvedGraph == IF last.op = "solve_forward" THEN forward_graph ELSE backward_graph

\* the movers the first pass of the last call takes up: they have a
\* transform, their source held the value the pass looks at when the call
\* began, and (solve_forward) their target is not an initial perch
EligibleMovers ==
  {e \in EdgeSet(SolvedGraph) :
     /\ has_comp(SolvedGraph.mover[e])
     /\ IF last.op = "solve_forward"
        THEN /\ sim(last.pre[e[1]]) # None
             /\ ~(comp(last.pre[e[2]]) # None /\ sim(last.pre[e[2]]) # None)
        ELSE last.pre[e[1]][SolvedGraph.mover[e].source_keys[1]] # None}

\* C38 as stated: when the transform of a mover raised inside a
\* solve_backward or a solve_forward, the call returned normally, the
\* target perch of that mover is as it was before the call, and every
\* other mover the first pass takes up was executed.
C38_TransformErrorsSwallowed ==
  (last.op \in {"solve_backward", "solve_forward"})
  => \A c \in last.calls :
       (execute(SolvedGraph.mover[<<c[1], c[2]>>].comp, c[3]).kind = "raise")
       => /\ last.outcome = "ok"
          /\ perches[c[2]] = last.pre[c[2]]
          /\ \A e \in EligibleMovers : \E d \in last.calls : d[1] = e[1] /\ d[2] = e[2]

\* solve_backward has returned though halve raised for the dict the mover
\* A -> B gave it; B is as before, and the mover A -> C, which comes after
\* A -> B in the pass, has written C
C38_Witness ==
  /\ last.op = "solve_backward" /\ last.outcome = "ok"
  /\ DOMAIN perches = Names
  /\ backward_graph.succ["A"] = <<"B", "C">>
  /\ \E input \in {Bundle([up |-> MaxVal, down |-> MaxVal])} :
       /\ <<"A", "B", input>> \in last.calls
       /\ execute(backward_graph.mover[<<"A", "B">>].comp, input) = Raised
  /\ perches["B"] = last.pre["B"]
  /\ last.pre["C"]["up"] = None
  /\ perches["C"]["up"] = MaxVal \div 2

(***************************************************************************)
(* Agreement of the two Eulerian queries (SpecEuler).                     *)
(***************************************************************************)
\* C39 as stated: find_eulerian_path returns a path exactly on the boards
\* is_eulerian_circuit returns True for, and None exactly on the boards it
\* returns False for.
C39_EulerianQueriesAgree ==
  (last.op = "find_eulerian_path")
  => /\ (last.outcome = "ok")
          <=> is_eulerian_circuit(backward_graph, forward_graph, perch_order)
     /\ (last.outcome = "None")
          <=> ~is_eulerian_circuit(backward_graph, forward_graph, perch_order)

(***************************************************************************)
(* set_perch_data with a dict of several keys (SpecMixed).                *)
(***************************************************************************)
\* C40 as stated: a set_perch_data whose dict has a key outside the schema
\* of the perch raises KeyError and leaves every key of the perch and every
\* flag as it was; a set_perch_data whose keys are all of the schema
\* returns, every key holds the value given for it, and is_solvable holds
\* if the board then meets the conditions of _check_solvability.
C40_SetPerchDataAllOrNothing ==
  [][\A name \in DOMAIN perches, ks \in MixedKeysets, v \in Seeds :
       (/\ last'.op = "set_perch_data"
        /\ set_perch_data(name, [k \in Range(ks) |-> v], ks))
       => IF Range(ks) \subseteq DOMAIN perches[name]
          THEN /\ last'.outcome = "ok"
               /\ \A k \in Range(ks) : perches'[name][k] = v
               /\ _check_solvability(has_model, perches') => is_solvable'
          ELSE /\ last'.outcome = "KeyError"
               /\ perches' = perches
               /\ flags' = flags]_vars

====
